---- MODULE Spec2Model ----
(***************************************************************************)
(* AI Mafia: the turn-taking Orchestrator (orchestrator.py) driven by the  *)
(* round loop of MafiaGame (game_engine.py).                               *)
(*                                                                         *)
(* Agents are identified by their names.  A message of the conversation    *)
(* log is a record [agent, is_system, content]; the free text of a message *)
(* is abstracted to a tag ("names": the text holds the players' names,     *)
(* "plain": it holds none), and what the LLM oracle answers about a text   *)
(* is an input of the call that asks it.                                   *)
(***************************************************************************)
EXTENDS Integers, Sequences, FiniteSets, TLC

VARIABLES
    agents,                     \* MafiaGame.agents: sequence of [name, role]
    conversation_history,       \* MafiaGame.conversation_history
    eliminated_agents,          \* MafiaGame.eliminated_agents (a list)
    is_running,                 \* MafiaGame.is_running
    in_voting,                  \* MafiaGame.in_voting
    last_voting_message_count,  \* MafiaGame.last_voting_message_count
    current_speaker,            \* MafiaGame.current_speaker
    conversation_reset_index,   \* MafiaGame.conversation_reset_index
    agent_patience,             \* Orchestrator.agent_patience (a dict)
    question_queue,             \* Orchestrator.question_queue (a dict)
    last_pingpong_mediator,     \* Orchestrator.last_pingpong_mediator
    force_deflection_from,      \* Orchestrator.force_deflection_from (a list)
    vote_history,               \* MafiaGame.vote_history
    call,                       \* history: the last select_next_speaker call
    voting,                     \* history: the last trigger_voting
    env,                        \* what the environment may still do (bounds)
    will,                       \* a last will, the mafia's responses to it, the outcome
    loop_check,                 \* the messages of a loop check, the oracle's result, the answer
    pc,                         \* where each thread is in the method it runs
    lock,                       \* MafiaGame.lock: the thread that holds it, or None
    local,                      \* the local variables of each thread
    snapshots                   \* history: what get_conversation_snapshot returned

gameVars == <<agents, conversation_history, eliminated_agents, is_running, in_voting, last_voting_message_count, current_speaker, conversation_reset_index, vote_history>>

orchVars == <<agent_patience, question_queue, last_pingpong_mediator, force_deflection_from>>

\* The variables that only the specifications of a single method or of the
\* threads change
sideVars == <<will, loop_check, pc, lock, local, snapshots>>

vars == <<gameVars, orchVars, call, voting, env, sideVars>>

-----------------------------------------------------------------------------
(* Values *)

\* Python's None, for a name or an agent.
None == "None"

\* The agent name of a system message.
System == "System"

\* The names the agents get; list order is the order of MafiaGame.agents.
agent_names == <<"Alice", "Bob", "Carol", "Dave", "Eve">>

\* Program constants.
patience_threshold == 8

VOTING_MESSAGE_THRESHOLD == 20

context_window == 10

check_window == 4

quiet_window == 5

\* Bounds of the model.
MaxNames == 3

MaxAsk == 1

MaxEcho == 1

MaxFails == 8

MaxAsked == 2

MaxDraw == 2

MaxVoteChoices == 1

MaxVoters == 3

MaxOutageMessages == 3

MaxEarlyMessages == 5

MaxLateMessages == 20

QuietPrefix == 16

MaxWillLen == 3

MaxWordLen == 2

MaxKeywords == 2

MaxThreadMessages == 2

MaxCalls == 2

-----------------------------------------------------------------------------
(* Sequences *)

Range(s) == {s[i] : i \in 1..Len(s)}

\* s[-n:]
LastN(s, n) == IF Len(s) <= n THEN s ELSE SubSeq(s, Len(s) - n + 1, Len(s))

\* [m for m in history if not m.get('is_system')]
NonSystem(hist) == SelectSeq(hist, LAMBDA m : ~m.is_system)

\* [m['agent'] for m in messages]
Speakers(msgs) == [i \in 1..Len(msgs) |-> msgs[i].agent]

\* dict.get(name, 0)
Get(d, name) == IF name \in DOMAIN d THEN d[name] ELSE 0

\* dict.get(name, []) for the question queue
Pending(q, name) == IF name \in DOMAIN q THEN q[name] ELSE <<>>

-----------------------------------------------------------------------------
(* Orchestrator: helpers *)

\* A faulty filter: the eliminated agents stay in the list
all_agents(ags, elim) == [i \in 1..Len(ags) |-> ags[i].name]

\* [a for a in agents if a.name not in eliminated_agents], as names
active_agents(ags, elim) == LET names == [i \in 1..Len(ags) |-> ags[i].name]
    IN SelectSeq(names, LAMBDA n : n \notin Range(elim))

\* A faulty _update_patience: every active agent's counter goes up, the last
\* speaker's too
tick_all(active, hist, patience) ==
    LET init == [n \in DOMAIN patience \cup Range(active) |-> Get(patience, n)]
    IN  IF NonSystem(hist) = <<>> THEN init
        ELSE [n \in DOMAIN init |-> IF n \notin Range(active) THEN init[n] ELSE init[n] + 1]

\* Orchestrator._update_patience
_update_patience(active, hist, patience) ==
    LET init == [n \in DOMAIN patience \cup Range(active) |-> Get(patience, n)]
        recent_messages == NonSystem(hist)
    IN  IF recent_messages = <<>> THEN init
        ELSE LET last_speaker == recent_messages[Len(recent_messages)].agent
             IN  [n \in DOMAIN init |->
                    IF n \notin Range(active) THEN init[n]
                    ELSE IF n = last_speaker THEN 0
                    ELSE init[n] + 1]

\* A faulty _pick_by_patience: the last maximum
pick_last(ags, patience) ==
    IF ags = <<>> THEN None
    ELSE LET i == CHOOSE i \in 1..Len(ags) :
                    /\ \A j \in 1..Len(ags) : Get(patience, ags[j]) <= Get(patience, ags[i])
                    /\ \A j \in (i + 1)..Len(ags) : Get(patience, ags[j]) < Get(patience, ags[i])
         IN  ags[i]

\* Orchestrator._pick_by_patience: Python's max returns the first maximum
_pick_by_patience(ags, patience) ==
    IF ags = <<>> THEN None
    ELSE LET i == CHOOSE i \in 1..Len(ags) :
                    /\ \A j \in 1..Len(ags) : Get(patience, ags[j]) <= Get(patience, ags[i])
                    /\ \A j \in 1..(i - 1) : Get(patience, ags[j]) < Get(patience, ags[i])
         IN  ags[i]

\* Orchestrator._pick_random: random.choice, the draw being rnd
_pick_random(ags, rnd) == IF ags = <<>> THEN None ELSE ags[((rnd - 1) % Len(ags)) + 1]

\* A faulty _find_impatient_agent: the most impatient agent at or above the
\* threshold instead of the first in list order
MostImpatient(active, patience) ==
    _pick_by_patience(SelectSeq(active, LAMBDA n : Get(patience, n) >= patience_threshold), patience)

\* Orchestrator._find_impatient_agent: the first in list order
_find_impatient_agent(active, patience) ==
    LET hits == SelectSeq(active, LAMBDA n : Get(patience, n) >= patience_threshold)
    IN  IF hits = <<>> THEN None ELSE hits[1]

\* Orchestrator._max_consecutive_speaker, the loop unrolled as a recursion
\* over the index i, carrying current_consecutive and max_consecutive
RECURSIVE MaxConsecutiveFrom(_, _, _, _)
MaxConsecutiveFrom(speakers, i, current_consecutive, max_consecutive) ==
    IF i > Len(speakers) THEN max_consecutive
    ELSE IF speakers[i] = speakers[i - 1]
         THEN MaxConsecutiveFrom(speakers, i + 1, current_consecutive + 1,
                                 IF current_consecutive + 1 > max_consecutive
                                 THEN current_consecutive + 1 ELSE max_consecutive)
         ELSE MaxConsecutiveFrom(speakers, i + 1, 1, max_consecutive)

_max_consecutive_speaker(speakers) ==
    IF speakers = <<>> THEN 0 ELSE MaxConsecutiveFrom(speakers, 2, 1, 1)

\* Orchestrator._detect_pingpong on the speakers of recent_messages;
\* <<>> stands for None
_detect_pingpong(recent_speakers, active) ==
    IF Len(recent_speakers) < check_window THEN <<>>
    ELSE LET speakers == LastN(recent_speakers, check_window)
             unique_speakers == Range(speakers)
             count(a) == Cardinality({i \in 1..Len(speakers) : speakers[i] = a})
             agent_objs == SelectSeq(active, LAMBDA n : n \in unique_speakers)
         IN  IF Cardinality(unique_speakers) /= 2 THEN <<>>
             ELSE IF \E a \in unique_speakers : count(a) /= 2 THEN <<>>
             ELSE IF _max_consecutive_speaker(speakers) >= 2 THEN <<>>
             ELSE IF Len(agent_objs) = 2 THEN agent_objs
             ELSE <<>>

\* Orchestrator._pick_mediator: random.choice among the others, the draw being rnd
_pick_mediator(active, pingpong_agents, rnd) ==
    _pick_random(SelectSeq(active, LAMBDA n : n \notin Range(pingpong_agents)), rnd)

\* Orchestrator._extract_questions: the active agents whose name the answer holds
_extract_questions(asked, active) == SelectSeq(active, LAMBDA n : n \in asked)

\* Orchestrator._update_question_queue
_update_question_queue(speaker, questioned, queue) ==
    [t \in DOMAIN queue \cup Range(questioned) |->
        IF t \notin Range(questioned) THEN queue[t]
        ELSE IF speaker \in Range(Pending(queue, t)) THEN queue[t]
        ELSE Append(Pending(queue, t), speaker)]

\* Orchestrator._get_agent_with_pending_questions: the first in list order
_get_agent_with_pending_questions(active, queue) ==
    LET hits == SelectSeq(active, LAMBDA n : Pending(queue, n) /= <<>>)
    IN  IF hits = <<>> THEN None ELSE hits[1]

\* A faulty _clear_question_queue: the queue is left as it is
KeepQuestionQueue(queue, agent_name) == queue

\* Orchestrator._clear_question_queue
_clear_question_queue(queue, agent_name) ==
    IF agent_name \in DOMAIN queue THEN [queue EXCEPT ![agent_name] = <<>>] ELSE queue

\* Orchestrator._find_accused, the fast path: the text holds an active agent's name
mentions_agent(message, active) == active /= <<>> /\ message.content = "names"

\* Orchestrator._find_accused: the substring pre-filter, then the LLM's answer
\* matched against the active names
_find_accused(message, addressed, active) ==
    IF ~mentions_agent(message, active) THEN None
    ELSE IF addressed \in Range(active) THEN addressed
    ELSE None

\* Orchestrator._simple_echo_detection's list of keywords
common_words == <<"consensus", "deflecting", "suspicious", "evasive", "agree">>

\* Orchestrator._simple_echo_detection: at least 2 keywords are each held by
\* at least 3 of the last 4 contents.  Here the content of a message is the
\* set of keywords its text holds.
_simple_echo_detection(recent_messages) ==
    IF Len(recent_messages) < check_window THEN FALSE
    ELSE LET contents == LastN(recent_messages, check_window)
             overlap == {k \in 1..Len(common_words) :
                            Cardinality({i \in 1..Len(contents) :
                                            common_words[k] \in contents[i].content}) >= 3}
         IN  Cardinality(overlap) >= 2

\* Orchestrator._is_echo_chamber: fewer than 4 messages is no echo chamber;
\* otherwise the LLM's answer, "yes" or not (None is not), and the keyword
\* heuristic when the call of generate_response raises
_is_echo_chamber(recent_messages, echo) ==
    IF Len(recent_messages) < check_window THEN FALSE
    ELSE IF echo = "raises" THEN _simple_echo_detection(recent_messages)
    ELSE echo = "yes"

\* Orchestrator._get_quiet_agents
_get_quiet_agents(ags, recent_speakers) ==
    SelectSeq(ags, LAMBDA n : n \notin Range(LastN(recent_speakers, quiet_window)))

\* Orchestrator.is_impatient_turn, on the counters as they are when the turn
\* is processed
is_impatient_turn(agent_name, patience) == Get(patience, agent_name) >= patience_threshold

\* Orchestrator.is_mediator_turn, on the log as it is when the turn is
\* processed: at least 6 messages in the window, and the last 8 of them by
\* exactly two speakers, neither of them the agent
is_mediator_turn(agent_name, hist) ==
    LET recent_messages == NonSystem(LastN(hist, context_window))
        unique_speakers == Range(Speakers(LastN(recent_messages, 8)))
    IN  IF Len(recent_messages) < 6 THEN FALSE
        ELSE Cardinality(unique_speakers) = 2 /\ agent_name \notin unique_speakers

-----------------------------------------------------------------------------
(* Orchestrator.select_next_speaker *)

\* What a call returns and leaves behind: the agent (or None), the rule that
\* decided, the orchestrator's fields, and which oracle answers it consumed.
Outcome(ret, rule, patience, queue, mediator, deflect, used) ==
    [ret |-> ret, rule |-> rule, patience |-> patience, queue |-> queue,
     mediator |-> mediator, deflect |-> deflect, used |-> used]

\* RULE 5, 6, 7: no echo, echo chamber, default
RuleDefault(active, recent_messages, last_speaker, patience, queue, st, in) ==
    LET available == SelectSeq(active, LAMBDA n : n /= last_speaker)
        stuck == _is_echo_chamber(recent_messages, in.echo)
        quiet_agents == _get_quiet_agents(available, Speakers(recent_messages))
        used == IF Len(recent_messages) < check_window
                THEN {"asked", "accused"} ELSE {"asked", "accused", "echo"}
    IN  IF stuck /\ quiet_agents /= <<>>
        THEN Outcome(_pick_by_patience(quiet_agents, patience), "loop", patience,
                     queue, st.mediator, st.deflect, used)
        ELSE Outcome(_pick_by_patience(available, patience), "default", patience,
                     queue, st.mediator, st.deflect, used)

\* RULE 4: patience overflow
RulePatience(active, recent_messages, last_speaker, patience, queue, st, in) ==
    LET impatient == _find_impatient_agent(active, patience)
    IN  IF impatient /= None
        THEN Outcome(impatient, "patience", patience, queue, st.mediator,
                     st.deflect, {"asked", "accused"})
        ELSE RuleDefault(active, recent_messages, last_speaker, patience, queue, st, in)

\* RULE 3: the question queue
RuleQuestions(active, recent_messages, last_speaker, patience, queue, st, in) ==
    LET agent_with_questions == _get_agent_with_pending_questions(active, queue)
    IN  IF /\ agent_with_questions /= None
           /\ agent_with_questions /= last_speaker
           /\ agent_with_questions \notin Range(st.deflect)
        THEN Outcome(agent_with_questions, "questions", patience,
                     _clear_question_queue(queue, agent_with_questions),
                     st.mediator, st.deflect, {"asked", "accused"})
        ELSE RulePatience(active, recent_messages, last_speaker, patience, queue, st, in)

\* The question queue update, then RULE 2: defense priority
RuleDefense(active, recent_messages, last_speaker, patience, st, in) ==
    LET queue == _update_question_queue(last_speaker,
                     _extract_questions(in.asked, active), st.queue)
        accused == _find_accused(recent_messages[Len(recent_messages)], in.addressed, active)
    IN  IF accused /= None /\ accused /= last_speaker /\ accused \notin Range(st.deflect)
        THEN Outcome(accused, "defense", patience, _clear_question_queue(queue, accused),
                     st.mediator, st.deflect, {"asked", "accused"})
        ELSE RuleQuestions(active, recent_messages, last_speaker, patience, queue, st, in)

\* RULE 1: ping-pong, a mediator is injected
RulePingPong(active, recent_messages, last_speaker, patience, st, in) ==
    LET pingpong_agents == _detect_pingpong(Speakers(recent_messages), active)
        mediator == IF pingpong_agents = <<>> THEN None
                    ELSE _pick_mediator(active, pingpong_agents, in.rnd)
    IN  IF mediator /= None
        THEN Outcome(mediator, "pingpong", patience, st.queue, mediator,
                     pingpong_agents, {"rnd"})
        ELSE RuleDefense(active, recent_messages, last_speaker, patience, st, in)

\* RULE 0: the mediator just spoke, deflect away from the ping-pong pair
RuleDeflect(active, recent_messages, last_speaker, patience, st, in) ==
    LET available == SelectSeq(active,
                        LAMBDA n : n /= last_speaker /\ n \notin Range(st.deflect))
    IN  IF st.mediator /= None /\ last_speaker = st.mediator /\ available /= <<>>
        THEN Outcome(_pick_by_patience(available, patience), "deflect", patience,
                     st.queue, None, <<>>, {})
        ELSE RulePingPong(active, recent_messages, last_speaker, patience, st, in)

\* Orchestrator.select_next_speaker on the list it is handed, which is the
\* game's own list and no copy: seen is the list as _update_patience reads it
\* (line 32), hist the list as the window is cut from it (line 35).  st holds
\* the orchestrator's fields before the call, in the oracle's answers and the
\* random draw.
select_from(ags, seen, hist, elim, st, in) ==
    LET active == active_agents(ags, elim)
        patience == _update_patience(active, seen, st.patience)
        recent_messages == NonSystem(LastN(hist, context_window))
    IN  IF active = <<>>
        THEN Outcome(None, "noactive", st.patience, st.queue, st.mediator, st.deflect, {})
        ELSE IF recent_messages = <<>>
        THEN Outcome(_pick_random(active, in.rnd), "random", patience, st.queue,
                     st.mediator, st.deflect, {"rnd"})
        ELSE RuleDeflect(active, recent_messages,
                         recent_messages[Len(recent_messages)].agent, patience, st, in)

\* Orchestrator.select_next_speaker when the list does not change during the
\* call
select_next_speaker(ags, hist, elim, st, in) == select_from(ags, hist, hist, elim, st, in)

-----------------------------------------------------------------------------
(* MafiaGame: the log *)

\* The dict add_message builds (the timestamp left out).
Message(agent_name, content, is_system) ==
    [agent |-> agent_name, content |-> content, is_system |-> is_system]

\* A faulty add_message: the message goes to the front of the list
insert_message(hist, agent_name, content, is_system) ==
    <<Message(agent_name, content, is_system)>> \o hist

\* MafiaGame.add_message
add_message(hist, agent_name, content, is_system) ==
    Append(hist, Message(agent_name, content, is_system))

\* add_message("System", content, is_system=True) for each content of a list
RECURSIVE add_system_messages(_, _)
add_system_messages(hist, contents) ==
    IF contents = <<>> THEN hist
    ELSE add_system_messages(add_message(hist, System, Head(contents), TRUE), Tail(contents))

\* len([m for m in self.conversation_history if not m.get('is_system')])
NonSystemCount(hist) == Len(NonSystem(hist))

\* A faulty trigger: voting is due only past the threshold
VotingOverdue ==
    /\ NonSystemCount(conversation_history) - last_voting_message_count > VOTING_MESSAGE_THRESHOLD
    /\ ~in_voting

\* run_round: messages_since_last_vote >= VOTING_MESSAGE_THRESHOLD and not self.in_voting
VotingDue ==
    /\ NonSystemCount(conversation_history) - last_voting_message_count >= VOTING_MESSAGE_THRESHOLD
    /\ ~in_voting

-----------------------------------------------------------------------------
(* The environment: the oracle's answers, the generator, the random draws *)

\* The orchestrator's fields as one record
OrchState ==
    [patience |-> agent_patience, queue |-> question_queue,
     mediator |-> last_pingpong_mediator, deflect |-> force_deflection_from]

\* APIHandler.generate_response: the text the provider returned, or None when
\* the provider returned None or raised; no exception leaves the method
generate_response(result) == IF result = "raises" THEN None ELSE result

\* The answers of an oracle that sees nothing in the text
NoSignal(rnd) ==
    [addressed |-> None, asked |-> {}, echo |-> "no", rnd |-> rnd]

\* During the first env.quiet messages the oracle sees nothing, no turn fails,
\* and a vote or kill response names nobody.
Silent == NonSystemCount(conversation_history) < env.quiet

\* APIHandler.generate_response returns None on every error, for a turn and for
\* the oracle alike: while the API is down (env.down) turns fail and the oracle
\* sees nothing.  An answer of the oracle, or a turn that speaks, ends the
\* outage; env allows one outage of at most env.fails failed turns.
Up(e) == [e EXCEPT !.down = FALSE, !.fails = IF e.down THEN 0 ELSE @]

\* The answers the oracle may give at this call, within what env still allows
OracleAnswers(active) ==
    LET accuse == IF Silent THEN {None} ELSE Range(active) \cup {None}
        ask == IF Silent \/ env.ask = 0 THEN {{}}
               ELSE {q \in SUBSET Range(active) : Cardinality(q) <= MaxAsked}
        echo == IF Silent \/ env.echo = 0 THEN {"no"} ELSE {"no", "yes"}
    IN  {[addressed |-> a, asked |-> q, echo |-> e, rnd |-> r] :
            a \in accuse, q \in ask, e \in echo, r \in 1..MaxDraw}

\* An answer the call never asked for is left at its default, so that one
\* call is one choice of answers.
Consumed(in, out) ==
    /\ IF "accused" \in out.used THEN TRUE ELSE in.addressed = None
    /\ IF "asked" \in out.used THEN TRUE ELSE in.asked = {}
    /\ IF "echo" \in out.used THEN TRUE ELSE in.echo = "no"
    /\ IF "rnd" \in out.used THEN TRUE ELSE in.rnd = 1

\* What the answers cost of env
Spend(in) ==
    LET e == IF in.addressed /= None \/ in.asked /= {} \/ in.echo = "yes" THEN Up(env) ELSE env
    IN  [e EXCEPT !.ask = @ - (IF in.asked /= {} THEN 1 ELSE 0),
                  !.echo = @ - (IF in.echo = "yes" THEN 1 ELSE 0)]

\* The texts a turn may produce: env.names of them may hold the players' names
Contents == IF Silent \/ env.names = 0 THEN {"plain"} ELSE {"plain", "names"}

\* The part of a call record kept as the previous call
Summary(c) ==
    [rule |-> c.rule, ret |-> c.ret, active |-> c.active, len |-> c.len,
     in |-> c.in, last_speaker |-> c.last_speaker, mentions |-> c.mentions, pre |-> c.pre]

\* The orchestrator's fields after Orchestrator.__init__
NewOrchestrator == [patience |-> <<>>, queue |-> <<>>, mediator |-> None, deflect |-> <<>>]

NoCall ==
    [rule |-> "none", ret |-> None, active |-> <<>>, len |-> 0,
     in |-> NoSignal(1), last_speaker |-> None, mentions |-> FALSE, pre |-> NewOrchestrator]

\* No voting round yet
NoVoting ==
    [rounds |-> 0, over |-> FALSE, since |-> 0, active |-> <<>>, before |-> <<>>,
     said |-> <<>>, ballot |-> <<>>, cast |-> <<>>, votes |-> <<>>, voted_out_name |-> None,
     responses |-> <<>>, mafia_kill_name |-> None, winner |-> None]

\* No will yet.  A text is a sequence of characters; the text of a response
\* is <<>> when generate_response returned None or an empty text.
NoWill == [original_will |-> <<>>, responses |-> <<>>, edited_will |-> <<>>, done |-> FALSE]

\* No loop check yet
NoLoopCheck == [recent_messages |-> <<>>, result |-> "no", answer |-> FALSE, done |-> FALSE]

\* The threads: the one that runs the round loop and another caller
Threads == {"loop", "caller"}

\* The local variables of a thread that is in no method: the message it is
\* adding, where it goes on after the method of the log, the list as
\* _update_patience read it, and the calls it has made
NoLocal == [message |-> Message(System, "", TRUE), then |-> "idle", seen |-> <<>>, calls |-> 0]

-----------------------------------------------------------------------------
(* MafiaGame: construction and the round loop *)

\* Three players and a long outage
Trio ==
    [n |-> 3, mafia |-> {"Bob"}, quiet |-> 0, names |-> 1, ask |-> 1, echo |-> 0,
     fails |-> MaxFails, cap |-> MaxOutageMessages, voters |-> MaxVoters,
     choices |-> MaxVoteChoices, stray |-> FALSE, starts |-> 1, stops |-> 0]

\* A configuration of the game and of its environment
Configurations ==
    { \* a single player, stopped and started again
      [n |-> 1, mafia |-> {}, quiet |-> 0, names |-> 1, ask |-> 1, echo |-> 0,
       fails |-> 1, cap |-> MaxOutageMessages, voters |-> MaxVoters,
       choices |-> MaxVoteChoices, stray |-> FALSE, starts |-> 2, stops |-> 1],
      Trio,
      \* four players, accusations and a failed turn
      [n |-> 4, mafia |-> {"Bob"}, quiet |-> 0, names |-> MaxNames - 1, ask |-> 0,
       echo |-> 0, fails |-> 1, cap |-> MaxEarlyMessages, voters |-> MaxVoters,
       choices |-> MaxVoteChoices, stray |-> FALSE, starts |-> 1, stops |-> 0],
      \* four players, accusations, questions and an echo chamber
      [n |-> 4, mafia |-> {"Carol"}, quiet |-> 0, names |-> MaxNames - 1, ask |-> MaxAsk,
       echo |-> MaxEcho, fails |-> 0, cap |-> MaxEarlyMessages, voters |-> MaxVoters,
       choices |-> MaxVoteChoices, stray |-> FALSE, starts |-> 1, stops |-> 0],
      \* five players up to and past the first voting round
      [n |-> 5, mafia |-> {"Eve"}, quiet |-> QuietPrefix, names |-> MaxNames, ask |-> 0,
       echo |-> 0, fails |-> 0, cap |-> MaxLateMessages, voters |-> MaxVoters,
       choices |-> MaxVoteChoices, stray |-> FALSE, starts |-> 1, stops |-> 0],
      \* five players, two of them mafia: an accusation before the voting
      \* round, a voting round with ties, and the first message after it
      [n |-> 5, mafia |-> {"Alice", "Bob"}, quiet |-> VOTING_MESSAGE_THRESHOLD - 2, names |-> 1,
       ask |-> 0, echo |-> 0, fails |-> 0, cap |-> MaxLateMessages + 1,
       voters |-> MaxVoters + 1, choices |-> MaxVoteChoices + 1, stray |-> FALSE,
       starts |-> 1, stops |-> 0],
      \* five players and two voting rounds, the second with votes and kill
      \* responses that name anyone
      [n |-> 5, mafia |-> {"Eve"}, quiet |-> 2 * VOTING_MESSAGE_THRESHOLD, names |-> 0,
       ask |-> 0, echo |-> 0, fails |-> 0, cap |-> MaxLateMessages + VOTING_MESSAGE_THRESHOLD,
       voters |-> MaxVoters - 1, choices |-> MaxVoteChoices, stray |-> TRUE,
       starts |-> 1, stops |-> 0],
      \* three players: the game is won in the first voting round, then
      \* stopped and started again, twice
      [n |-> 3, mafia |-> {"Carol"}, quiet |-> VOTING_MESSAGE_THRESHOLD, names |-> 0,
       ask |-> 0, echo |-> 0, fails |-> 0, cap |-> MaxLateMessages,
       voters |-> MaxVoters - 2, choices |-> MaxVoteChoices, stray |-> FALSE,
       starts |-> 3, stops |-> 1],
      \* five players, an accusation and an echo chamber among the first messages
      [n |-> 5, mafia |-> {"Eve"}, quiet |-> 0, names |-> 1, ask |-> 0, echo |-> MaxEcho,
       fails |-> 0, cap |-> MaxEarlyMessages, voters |-> MaxVoters,
       choices |-> MaxVoteChoices, stray |-> FALSE, starts |-> 1, stops |-> 0],
      \* five players, a voting round without votes, an accusation and an echo
      \* chamber among the first messages after it
      [n |-> 5, mafia |-> {"Eve"}, quiet |-> VOTING_MESSAGE_THRESHOLD + 1, names |-> 1,
       ask |-> 0, echo |-> MaxEcho, fails |-> 0, cap |-> MaxLateMessages + MaxEarlyMessages,
       voters |-> MaxVoters, choices |-> MaxVoteChoices, stray |-> FALSE,
       starts |-> 1, stops |-> 0] }

\* MafiaGame.__init__ and _initialize_agents, Orchestrator.__init__, for a
\* configuration
NewGame(c) ==
    /\ agents = [i \in 1..c.n |->
                    [name |-> agent_names[i],
                     role |-> IF agent_names[i] \in c.mafia THEN "mafia" ELSE "villager"]]
    /\ conversation_history =
            add_system_messages(<<>>, <<"OPENING HINT", "Someone among the players", "Players">>)
    /\ vote_history = <<>>
    /\ eliminated_agents = <<>>
    /\ is_running = FALSE
    /\ in_voting = FALSE
    /\ last_voting_message_count = 0
    /\ current_speaker = None
    /\ conversation_reset_index = 0
    /\ agent_patience = NewOrchestrator.patience
    /\ question_queue = NewOrchestrator.queue
    /\ last_pingpong_mediator = NewOrchestrator.mediator
    /\ force_deflection_from = NewOrchestrator.deflect
    /\ call = [prev |-> NoCall] @@ NoCall
    /\ voting = NoVoting
    /\ env = [quiet |-> c.quiet, names |-> c.names, ask |-> c.ask, echo |-> c.echo,
              fails |-> c.fails, down |-> FALSE, cap |-> c.cap, voters |-> c.voters,
              choices |-> c.choices, stray |-> c.stray, starts |-> c.starts,
              stops |-> c.stops]

\* No will is being edited, no loop check is running
NoMethod ==
    /\ will = NoWill
    /\ loop_check = NoLoopCheck

\* One thread only, the one that runs the round loop, and nobody in a method
\* of the log
NoThreads ==
    /\ pc = [t \in Threads |-> "idle"]
    /\ lock = None
    /\ local = [t \in Threads |-> NoLocal]
    /\ snapshots = <<>>

\* A new game in any of the configurations
Init ==
    /\ \E c \in Configurations : NewGame(c)
    /\ NoMethod
    /\ NoThreads

\* MafiaGame.start
Start ==
    /\ env.starts > 0
    /\ is_running' = TRUE
    /\ env' = [env EXCEPT !.starts = @ - 1]
    /\ UNCHANGED <<agents, conversation_history, eliminated_agents, in_voting, last_voting_message_count, current_speaker, conversation_reset_index, orchVars, call, voting, vote_history, sideVars>>

\* MafiaGame.run_round, no current speaker: the orchestrator picks the next one
RunRoundSelect ==
    /\ is_running
    /\ ~VotingDue
    /\ current_speaker = None
    /\ NonSystemCount(conversation_history) <= env.cap
    /\ \E in \in OracleAnswers(active_agents(agents, eliminated_agents)) :
        \E out \in {select_next_speaker(agents, conversation_history, eliminated_agents, OrchState, in)} :
        LET recent_messages == NonSystem(LastN(conversation_history, context_window))
        IN  /\ Consumed(in, out)
            /\ IF in.addressed = None THEN TRUE
               ELSE recent_messages[Len(recent_messages)].content = "names"
            /\ agent_patience' = out.patience
            /\ question_queue' = out.queue
            /\ last_pingpong_mediator' = out.mediator
            /\ force_deflection_from' = out.deflect
            /\ current_speaker' = out.ret
            /\ env' = Spend(in)
            /\ call' = [rule |-> out.rule, ret |-> out.ret,
                        active |-> active_agents(agents, eliminated_agents),
                        len |-> Len(conversation_history), in |-> in,
                        last_speaker |-> IF recent_messages = <<>> THEN None
                                         ELSE recent_messages[Len(recent_messages)].agent,
                        mentions |-> /\ recent_messages /= <<>>
                                     /\ recent_messages[Len(recent_messages)].content = "names",
                        pre |-> OrchState, prev |-> Summary(call)]
    /\ UNCHANGED <<agents, conversation_history, eliminated_agents, is_running, in_voting, last_voting_message_count, conversation_reset_index, voting, vote_history, sideVars>>

\* MafiaGame.run_round with a current speaker, process_agent_turn gets a
\* response and adds it to the log: the turn of a game whose create_prompt
\* takes the two flags.  ProcessAgentTurn is the turn with create_prompt as it
\* is written.
RunRoundSpeak ==
    /\ is_running
    /\ ~VotingDue
    /\ current_speaker /= None
    /\ NonSystemCount(conversation_history) < env.cap
    /\ \E content \in Contents :
        /\ conversation_history' = add_message(conversation_history, current_speaker, content, FALSE)
        /\ env' = [Up(env) EXCEPT !.names = @ - (IF content = "names" THEN 1 ELSE 0)]
    /\ current_speaker' = None
    /\ UNCHANGED <<agents, eliminated_agents, is_running, in_voting, last_voting_message_count, conversation_reset_index, orchVars, call, voting, vote_history, sideVars>>

\* MafiaGame.run_round with a current speaker, process_agent_turn gets no response
RunRoundSilent ==
    /\ is_running
    /\ ~VotingDue
    /\ current_speaker /= None
    /\ ~Silent
    /\ env.fails > 0
    /\ NonSystemCount(conversation_history) < env.cap
    /\ current_speaker' = None
    /\ env' = [env EXCEPT !.fails = @ - 1, !.down = TRUE]
    /\ UNCHANGED <<agents, conversation_history, eliminated_agents, is_running, in_voting, last_voting_message_count, conversation_reset_index, orchVars, call, voting, vote_history, sideVars>>

-----------------------------------------------------------------------------
(* MafiaGame.trigger_voting *)

\* The names of all agents of the game
AllNames(ags) == {ags[i].name : i \in 1..Len(ags)}

\* The first name of a list that a text names, or None:
\* for candidate in candidates: if candidate.lower() in text.lower()
Match(candidates, named) ==
    LET hits == SelectSeq(candidates, LAMBDA n : n \in named)
    IN  IF hits = <<>> THEN None ELSE hits[1]

\* A faulty list of candidates: the voter itself is one of them
AllCandidates(active, i) == active

\* conduct_voting: candidates = [a.name for a in active_agents if a.name != agent.name]
Candidates(active, i) == SelectSeq(active, LAMBDA n : n /= active[i])

\* votes[candidate] = votes.get(candidate, 0) + 1 on the insertion-ordered dict,
\* a sequence of [name, count]
CountVote(votes, candidate) ==
    IF \E k \in 1..Len(votes) : votes[k].name = candidate
    THEN [k \in 1..Len(votes) |->
            IF votes[k].name = candidate
            THEN [name |-> candidate, count |-> votes[k].count + 1] ELSE votes[k]]
    ELSE Append(votes, [name |-> candidate, count |-> 1])

\* MafiaGame.conduct_voting: the loop over the active agents from voter i on.
\* ballot[i] is the set of names the i-th active agent's VOTE line holds.
\* Yields the votes, the "voted for" messages as cast, and the log.
RECURSIVE conduct_voting(_, _, _, _, _, _)
conduct_voting(active, ballot, i, votes, cast, hist) ==
    IF i > Len(active)
    THEN [votes |-> votes, cast |-> cast,
          hist |-> add_message(hist, System, "VOTE BREAKDOWN", TRUE)]
    ELSE LET candidate == Match(Candidates(active, i), ballot[i])
         IN  IF candidate = None
             THEN conduct_voting(active, ballot, i + 1, votes, cast, hist)
             ELSE conduct_voting(active, ballot, i + 1, CountVote(votes, candidate),
                                 Append(cast, [voter |-> active[i], candidate |-> candidate]),
                                 add_message(hist, System, "voted", TRUE))

\* A faulty max: the last key with the largest count
LastMaxVotes(votes) ==
    LET k == CHOOSE k \in 1..Len(votes) :
                /\ \A j \in 1..Len(votes) : votes[j].count <= votes[k].count
                /\ \A j \in (k + 1)..Len(votes) : votes[j].count < votes[k].count
    IN  votes[k].name

\* max(votes, key=votes.get): the first key with the largest count
MaxVotes(votes) ==
    LET k == CHOOSE k \in 1..Len(votes) :
                /\ \A j \in 1..Len(votes) : votes[j].count <= votes[k].count
                /\ \A j \in 1..(k - 1) : votes[j].count < votes[k].count
    IN  votes[k].name

\* A faulty filter: the eliminated agents of the role are kept
Everyone(ags, elim, role) ==
    SelectSeq(active_agents(ags, <<>>),
              LAMBDA n : \E i \in 1..Len(ags) : ags[i].name = n /\ ags[i].role = role)

\* The names of the agents of a role that are not eliminated
Remaining(ags, elim, role) ==
    SelectSeq(active_agents(ags, elim),
              LAMBDA n : \E i \in 1..Len(ags) : ags[i].name = n /\ ags[i].role = role)

\* The first candidate that a response of the mafia agents names, in their order
RECURSIVE FirstTarget(_, _, _)
FirstTarget(candidates, responses, i) ==
    IF i > Len(responses) THEN None
    ELSE IF Match(candidates, responses[i]) /= None THEN Match(candidates, responses[i])
    ELSE FirstTarget(candidates, responses, i + 1)

\* A faulty conduct_mafia_kill: every active agent is a candidate
KillAnyone(ags, elim, responses, rnd) ==
    LET candidates == active_agents(ags, elim)
    IN  IF candidates = <<>> THEN None
        ELSE IF FirstTarget(candidates, responses, 1) /= None
        THEN FirstTarget(candidates, responses, 1)
        ELSE _pick_random(candidates, rnd)

\* MafiaGame.conduct_mafia_kill: responses[i] is the set of names the i-th
\* mafia agent's response holds, rnd the draw of random.choice
conduct_mafia_kill(ags, elim, responses, rnd) ==
    LET candidates == Remaining(ags, elim, "villager")
    IN  IF candidates = <<>> THEN None
        ELSE IF FirstTarget(candidates, responses, 1) /= None
        THEN FirstTarget(candidates, responses, 1)
        ELSE _pick_random(candidates, rnd)

\* A faulty win check: the mafia win only when they outnumber the villagers
MafiaOutnumber(mafia_count, villager_count) == mafia_count > villager_count

\* trigger_voting: elif mafia_count >= villager_count
MafiaWins(mafia_count, villager_count) == mafia_count >= villager_count

\* What the VOTE line of the i-th active agent may hold, as a list: nothing,
\* one of its first env.choices candidates and, with env.stray, any one name
\* of the game or all of them.  Only the first env.voters voters answer.
VoteOptions(ags, active, i) ==
    LET candidates == Candidates(active, i)
        first == SubSeq(candidates, 1, IF Len(candidates) < env.choices
                                       THEN Len(candidates) ELSE env.choices)
        names == [k \in 1..Len(ags) |-> ags[k].name]
    IN  IF Silent \/ i > env.voters THEN <<{}>>
        ELSE <<{}>> \o [k \in 1..Len(first) |-> {first[k]}]
                    \o (IF env.stray
                        THEN [k \in 1..Len(names) |-> {names[k]}] \o <<AllNames(ags)>>
                        ELSE <<>>)

\* The ballots the active agents may cast
Ballots(ags, active) ==
    LET most == 1 + env.choices + (IF env.stray THEN Len(ags) + 1 ELSE 0)
    IN  {[i \in 1..Len(active) |-> VoteOptions(ags, active, i)[pick[i]]] :
            pick \in {p \in [1..Len(active) -> 1..most] :
                        \A i \in 1..Len(active) : p[i] <= Len(VoteOptions(ags, active, i))}}

\* A response to the voting prompt: whether its response block holds the
\* token VOTE:, the names on the line after the token, and the names in the
\* rest of the text.  NoResponse: generate_response returned None.
NoResponse == [token |-> FALSE, line |-> {}, text |-> {}]

\* A faulty vote_name: without the token the whole text is taken for the vote
any_name(response) == IF response.token THEN response.line ELSE response.text

\* conduct_voting, lines 541-548: vote_name is set only from the line after
\* VOTE:, and stays None without the token; here the names it holds
vote_name(response) == IF response.token THEN response.line ELSE {}

\* The responses the active agents may give: for each ballot, every agent
\* writes its names on a VOTE: line or, with env.stray, they all write them
\* without the token
VoteResponses(ags, active) ==
    {[i \in 1..Len(active) |->
        IF b[i] = {} THEN NoResponse
        ELSE IF token THEN [token |-> TRUE, line |-> b[i], text |-> {}]
        ELSE [token |-> FALSE, line |-> {}, text |-> b[i]]] :
            b \in Ballots(ags, active), token \in IF env.stray THEN BOOLEAN ELSE {TRUE}}

\* What the mafia agents' responses may hold: nothing and, with env.stray,
\* any one name of the game
KillResponses(ags, remaining_mafia) ==
    [1..Len(remaining_mafia) ->
        IF Silent \/ ~env.stray THEN {{}} ELSE {{}} \cup {{n} : n \in AllNames(ags)}]

\* conduct_voting: the entry appended to vote_history, "eliminated": None.
\* The target of a vote is vote_name, here the names it holds.
VoteRecord(active, ballot, history) ==
    [round |-> Len(history) + 1,
     votes |-> [i \in 1..Len(active) |-> [voter |-> active[i], target |-> ballot[i]]],
     eliminated |-> None]

-----------------------------------------------------------------------------
(* Texts, as sequences of characters, and the str methods the will editing uses *)

\* The characters of the texts: a letter in both cases, a punctuation mark
\* that both strips remove, one that only the strip of a word of the will
\* removes, and the blank
Characters == {"a", "A", ".", "-", " "}

\* string.whitespace, as far as the characters go
whitespace == {" "}

\* str.lower
lower(text) == [i \in 1..Len(text) |-> IF text[i] = "A" THEN "a" ELSE text[i]]

\* str.lstrip(chars)
RECURSIVE lstrip(_, _)
lstrip(text, chars) ==
    IF text /= <<>> /\ Head(text) \in chars THEN lstrip(Tail(text), chars) ELSE text

\* str.rstrip(chars)
RECURSIVE rstrip(_, _)
rstrip(text, chars) ==
    IF text /= <<>> /\ text[Len(text)] \in chars
    THEN rstrip(SubSeq(text, 1, Len(text) - 1), chars) ELSE text

\* str.strip(chars)
strip(text, chars) == rstrip(lstrip(text, chars), chars)

\* str.split(): the words between runs of whitespace; word is the word
\* being read
RECURSIVE split(_, _)
split(text, word) ==
    IF text = <<>> THEN (IF word = <<>> THEN <<>> ELSE <<word>>)
    ELSE IF Head(text) \in whitespace
    THEN (IF word = <<>> THEN <<>> ELSE <<word>>) \o split(Tail(text), <<>>)
    ELSE split(Tail(text), Append(word, Head(text)))

\* " ".join(words)
RECURSIVE join(_)
join(words) ==
    IF words = <<>> THEN <<>>
    ELSE IF Len(words) = 1 THEN words[1]
    ELSE words[1] \o <<" ">> \o join(Tail(words))

\* conduct_will_editing, the loop over the mafia agents: the word of the first
\* response that is not empty, stripped of whitespace, then of the marks
\* . , ! ? and put in lower case; <<>> for None.  (The strips of the two
\* quote characters are left out: no text of the model holds a quote.)
RECURSIVE removed_word(_, _)
removed_word(responses, i) ==
    IF i > Len(responses) THEN <<>>
    ELSE IF responses[i] /= <<>>
    THEN lower(strip(strip(responses[i], whitespace), {".", ",", "!", "?"}))
    ELSE removed_word(responses, i + 1)

\* A word of the will, stripped of the marks . , ! ? - (and of the quotes)
\* and put in lower case
clean_word(word) == lower(strip(word, {".", ",", "!", "?", "-"}))

\* A faulty will editing: the first word goes whenever a word is requested
remove_first_word(original_will, responses) ==
    IF removed_word(responses, 1) = <<>> \/ split(original_will, <<>>) = <<>>
    THEN original_will
    ELSE join(Tail(split(original_will, <<>>)))

\* MafiaGame.conduct_will_editing: responses[i] is the response of the i-th
\* mafia agent that is not eliminated
conduct_will_editing(original_will, responses) ==
    LET words == split(original_will, <<>>)
        hits == {i \in 1..Len(words) : clean_word(words[i]) = removed_word(responses, 1)}
    IN  IF removed_word(responses, 1) = <<>> \/ hits = {} THEN original_will
        ELSE LET i == CHOOSE i \in hits : \A j \in hits : i <= j
             IN  join(SubSeq(words, 1, i - 1) \o SubSeq(words, i + 1, Len(words)))

\* trigger_voting, after the night kill: the will is published, the mafia edit
\* it, and an edited will is published too
publish_will(hist, original_will, edited_will) ==
    IF edited_will /= original_will
    THEN add_system_messages(hist, <<"LAST WILL", "WILL EDITED">>)
    ELSE add_message(hist, System, "LAST WILL", TRUE)

\* The wills and the responses of a voting round of the game: a word of the
\* will is requested, or none
SomeWills ==
    {[original_will |-> <<"a", " ", "A", ".">>, responses |-> <<r>>] : r \in {<<>>, <<"A">>}}

\* A faulty boundary: the index of the message before the round summary
before_summary(hist) == Len(hist) - 1

\* trigger_voting, line 411: self.conversation_reset_index =
\* len(self.conversation_history), right after the round summary is added
reset_index(hist) == Len(hist)

\* The index of the last message of the log with a content, 0 if there is none
RECURSIVE LastIndex(_, _, _)
LastIndex(hist, content, i) ==
    IF i = 0 THEN 0
    ELSE IF hist[i].content = content THEN i ELSE LastIndex(hist, content, i - 1)

\* The number of non-system messages of the log after the last voting round
SinceLastRound(hist) ==
    NonSystemCount(SubSeq(hist, LastIndex(hist, "ROUND SUMMARY", Len(hist)) + 1, Len(hist)))

\* A win condition has been detected: the log holds its message
GameOver ==
    \E i \in 1..Len(conversation_history) :
        conversation_history[i].content \in {"VILLAGERS WIN", "MAFIA WINS"}

\* The attributes Agent.__init__ sets (agent.py:32-47)
agent_attributes ==
    {"id", "name", "role", "is_typing", "last_speak_time", "message_count", "suspicion_level",
     "personality", "scratchpad_path", "scratchpad", "current_game_observations"}

\* MafiaGame._generate_agent_learnings: whether the call raises.  Line 695
\* reads agent.current_game_reasoning before the try block is entered, and no
\* agent has that attribute.
_generate_agent_learnings_raises == "current_game_reasoning" \notin agent_attributes

\* MafiaGame.stop(winner) at the end of trigger_voting, lines 418-423, after
\* is_running is cleared and "Game stopped." is added: TRUE when the call
\* raises out of trigger_voting, so that line 429, self.in_voting = False, is
\* not reached; FALSE when trigger_voting gets to line 429.  Without a winner
\* stop is not called.
stop_raises(winner) == winner /= None /\ _generate_agent_learnings_raises

\* MafiaGame.run_round when voting is due: trigger_voting, as one step.
\* said are the agents' responses to the voting prompt, kill is the draw of conduct_mafia_kill, w the will of the victim and the
\* mafia's responses to it, edited whether conduct_will_editing returned
\* another text than the will.
RunRoundVoting ==
    /\ is_running
    /\ VotingDue
    /\ \E said \in VoteResponses(agents, active_agents(agents, eliminated_agents)), kill \in 1..MaxDraw, w \in SomeWills :
        \E ballot \in {[i \in 1..Len(said) |-> vote_name(said[i])]} :
        \E edited \in {conduct_will_editing(w.original_will, w.responses) /= w.original_will} :
        \E round \in {conduct_voting(active_agents(agents, eliminated_agents), ballot, 1, <<>>, <<>>,
                            add_message(conversation_history, System, "VOTING TIME", TRUE))} :
        \E voted_out_name \in {IF round.votes = <<>> THEN None ELSE MaxVotes(round.votes)} :
        \E e2 \in {IF voted_out_name = None THEN eliminated_agents
                    ELSE Append(eliminated_agents, voted_out_name)} :
        \E h2 \in {IF voted_out_name = None THEN round.hist
                    ELSE add_system_messages(round.hist, <<"Voting Results", "eliminated by vote">>)} :
        \E remaining_mafia \in {Remaining(agents, e2, "mafia")} :
        \E responses \in KillResponses(agents, remaining_mafia) :
        \E mafia_kill_name \in {IF remaining_mafia = <<>> THEN None
                                 ELSE conduct_mafia_kill(agents, e2, responses, kill)} :
        \E e3 \in {IF mafia_kill_name = None THEN e2 ELSE Append(e2, mafia_kill_name)} :
        \E h3 \in {IF remaining_mafia = <<>> THEN h2
                    ELSE IF mafia_kill_name = None
                    THEN add_message(h2, System, "NIGHT FALLS", TRUE)
                    ELSE publish_will(add_message(h2, System, "NIGHT FALLS", TRUE), w.original_will,
                                      conduct_will_editing(w.original_will, w.responses))} :
        \E h4 \in {add_message(h3, System, "ROUND SUMMARY", TRUE)} :
        \E mafia_count \in {Len(Remaining(agents, e3, "mafia"))}, villager_count \in {Len(Remaining(agents, e3, "villager"))} :
        \E winner \in {IF mafia_count = 0 THEN "villagers"
                        ELSE IF MafiaWins(mafia_count, villager_count) THEN "mafia" ELSE None} :
            \* a draw or an edit that is not used is left at its default
            /\ IF mafia_kill_name /= None THEN TRUE ELSE kill = 1 /\ ~edited
            /\ IF mafia_kill_name = None THEN TRUE
               ELSE IF FirstTarget(Remaining(agents, e2, "villager"), responses, 1) = None
               THEN TRUE ELSE kill = 1
            /\ eliminated_agents' = e3
            /\ vote_history' = Append(vote_history,
                    VoteRecord(active_agents(agents, eliminated_agents), ballot, vote_history))
            /\ conversation_reset_index' = reset_index(h4)
            /\ IF winner = "villagers"
               THEN /\ conversation_history' =
                            add_system_messages(h4, <<"VILLAGERS WIN", "Game stopped.">>)
                    /\ is_running' = FALSE
                    /\ UNCHANGED last_voting_message_count
               ELSE IF winner = "mafia"
               THEN /\ conversation_history' =
                            add_system_messages(h4, <<"MAFIA WINS", "Game stopped.">>)
                    /\ is_running' = FALSE
                    /\ UNCHANGED last_voting_message_count
               ELSE /\ conversation_history' = h4
                    /\ last_voting_message_count' = NonSystemCount(h4)
                    /\ UNCHANGED is_running
            /\ voting' = [rounds |-> voting.rounds + 1, over |-> GameOver,
                          since |-> SinceLastRound(conversation_history),
                          active |-> active_agents(agents, eliminated_agents),
                          before |-> eliminated_agents, said |-> said, ballot |-> ballot,
                          cast |-> round.cast, votes |-> round.votes,
                          voted_out_name |-> voted_out_name, responses |-> responses,
                          mafia_kill_name |-> mafia_kill_name, winner |-> winner]
            /\ in_voting' = stop_raises(winner)
    /\ UNCHANGED <<agents, current_speaker, orchVars, call, env, sideVars>>

\* MafiaGame.stop, called from outside the round loop
Stop ==
    /\ env.stops > 0
    /\ is_running' = FALSE
    /\ conversation_history' = add_message(conversation_history, System, "Game stopped.", TRUE)
    /\ env' = [env EXCEPT !.stops = @ - 1]
    /\ UNCHANGED <<agents, eliminated_agents, in_voting, last_voting_message_count, current_speaker, conversation_reset_index, orchVars, call, voting, vote_history, sideVars>>

-----------------------------------------------------------------------------
(* Specification *)

Next ==
    \/ Start
    \/ RunRoundSelect
    \/ RunRoundSpeak
    \/ RunRoundSilent
    \/ RunRoundVoting
    \/ Stop

Spec == Init /\ [][Next]_vars

-----------------------------------------------------------------------------
(* The last select_next_speaker call, as the claims read it *)

\* A call has been made
Called == call.rule /= "none"

\* The call before the last one has been made too
CalledTwice == Called /\ call.prev.rule /= "none"

\* The call got past the early returns: there were active agents and the
\* recent window held a message, so the cascade's rules were evaluated
CascadeRan == call.rule \notin {"none", "noactive", "random"}

\* The speakers of the non-system messages of the log the call was given
LogSpeakers == Speakers(NonSystem(SubSeq(conversation_history, 1, call.len)))

\* The author of the newest non-system message of that log, None if there is none
LogLastSpeaker == IF LogSpeakers = <<>> THEN None ELSE LogSpeakers[Len(LogSpeakers)]

\* The speakers of the non-system messages appended between the previous call and the last
NewSpeakers == Speakers(NonSystem(SubSeq(conversation_history, call.prev.len + 1, call.len)))

\* The agent find_addressed named in the call (None: nobody)
Accused ==
    IF call.mentions /\ call.in.addressed \in Range(call.active) THEN call.in.addressed ELSE None

\* The counters at or above the threshold during the call, by list position
Impatient == {i \in 1..Len(call.active) : Get(agent_patience, call.active[i]) >= patience_threshold}

-----------------------------------------------------------------------------
(* C1 *)

-----------------------------------------------------------------------------
(* C2 *)

\* The windows of four speakers over three names
Windows == [1..check_window -> {"Alice", "Bob", "Carol"}]

\* A window holds the same speaker twice in a row
HasRun(w) == \E i \in 1..(Len(w) - 1) : w[i] = w[i + 1]

\* No ping-pong is detected in a window with a same-speaker run of 2 or more
NoPingPongOnRuns ==
    \A w \in Windows : HasRun(w) => _detect_pingpong(w, <<"Alice", "Bob", "Carol">>) = <<>>

\* C2: when the last four non-system messages of the log were spoken by
\* A,B,A,B (A /= B, both active), another active agent exists and forced
\* deflection does not apply, the call returns an active agent outside {A,B}
\* and remembers it as mediator together with the pair {A,B}; and no window
\* with a same-speaker run of 2 or more is taken for a ping-pong.
C2_PingPongMediator ==
    /\ NoPingPongOnRuns
    /\ \A A, B \in Range(call.active) :
        ( /\ Called
          /\ A /= B
          /\ Len(LogSpeakers) >= check_window
          /\ LastN(LogSpeakers, check_window) = <<A, B, A, B>>
          /\ Range(call.active) \ {A, B} /= {}
          /\ call.rule /= "deflect" )
        => /\ call.ret \in Range(call.active) \ {A, B}
           /\ last_pingpong_mediator = call.ret
           /\ Range(force_deflection_from) = {A, B}

-----------------------------------------------------------------------------
(* C3 *)

\* C3: the mediator and the pair remembered by the ping-pong rule at call k are
\* cleared once call k+1 has returned, whatever happened in between.
C3_MemoryClearedAfterNextCall ==
    (CalledTwice /\ call.prev.rule = "pingpong")
    => /\ last_pingpong_mediator = None
       /\ force_deflection_from = <<>>

-----------------------------------------------------------------------------
(* C4 *)

\* C4: if the last speaker of the log is the remembered mediator and an active
\* agent exists that is neither the mediator nor in the remembered pair, the call
\* returns such an agent.
C4_DeflectionAfterMediator ==
    ( /\ Called
      /\ call.pre.mediator /= None
      /\ LogLastSpeaker = call.pre.mediator
      /\ Range(call.active) \ ({call.pre.mediator} \cup Range(call.pre.deflect)) /= {} )
    => call.ret \in Range(call.active) \ ({call.pre.mediator} \cup Range(call.pre.deflect))

-----------------------------------------------------------------------------
(* C5 *)

\* C5: between two consecutive log states the orchestrator observes, the counter
\* of an active agent who authored none of the new non-system messages grows by
\* the number of new non-system messages, and the counter of the author of the
\* newest non-system message is 0.
C5_PatienceMonotone ==
    CalledTwice =>
        \A A \in Range(call.active) :
            /\ A \notin Range(NewSpeakers)
                => Get(agent_patience, A) = Get(call.pre.patience, A) + Len(NewSpeakers)
            /\ A = LogLastSpeaker => Get(agent_patience, A) = 0

-----------------------------------------------------------------------------
(* C6 *)

\* C6: a second select_next_speaker call on a log that has not changed since
\* the first leaves every patience counter as the first call left it.
C6_PatienceIdempotent ==
    (CalledTwice /\ call.prev.len = call.len)
    => \A A \in Range(call.active) : Get(agent_patience, A) = Get(call.pre.patience, A)

-----------------------------------------------------------------------------
(* C7 *)

-----------------------------------------------------------------------------
(* C8 *)

\* The question queue holds no pending question
NoPending(queue) == \A a \in DOMAIN queue : queue[a] = <<>>

\* C8: two consecutive calls on the same orchestrator with the identical log,
\* the identical active agents, the same oracle answers and the same random
\* draw return the same agent.  Stated for the calls that both start with no
\* pending question and no remembered mediator, where nothing but the patience
\* counters can tell the second call from the first.
C8_CascadeDeterministic ==
    ( /\ CalledTwice
      /\ call.prev.len = call.len
      /\ call.prev.active = call.active
      /\ call.prev.in = call.in
      /\ NoPending(call.prev.pre.queue) /\ NoPending(call.pre.queue)
      /\ call.prev.pre.mediator = None /\ call.pre.mediator = None )
    => call.ret = call.prev.ret

-----------------------------------------------------------------------------
(* C9 *)

\* C9: with Alice (villager), Bob (mafia), Carol (villager), a log whose
\* non-system messages are by Alice and Bob, the last mentioning Bob by name,
\* and the oracle answering none to find_addressed and no questions (none
\* pending from the first message either, and no mediator remembered), the
\* call returns Carol.
C9_ScenarioReturnsCarol ==
    ( /\ Called
      /\ NoPending(call.pre.queue)
      /\ call.pre.mediator = None
      /\ agents = <<[name |-> "Alice", role |-> "villager"], [name |-> "Bob", role |-> "mafia"],
                    [name |-> "Carol", role |-> "villager"]>>
      /\ call.active = <<"Alice", "Bob", "Carol">>
      /\ LogSpeakers = <<"Alice", "Bob">>
      /\ call.mentions
      /\ call.in.addressed = None
      /\ call.in.asked = {} )
    => call.ret = "Carol"

-----------------------------------------------------------------------------
(* C10 *)

\* C10: a call returns an active agent whenever there is one, and returns none
\* only when there is no active agent.
C10_ReturnsAnActiveAgent ==
    Called =>
        /\ call.active /= <<>> => call.ret \in Range(call.active)
        /\ call.ret = None => call.active = <<>>

-----------------------------------------------------------------------------
(* C11 *)

\* C11: whenever select_next_speaker returns an agent, by whichever rule, that
\* agent's entry of the question queue is empty when the call returns.
C11_SelectedQueueCleared ==
    (Called /\ call.ret /= None) => Pending(question_queue, call.ret) = <<>>

-----------------------------------------------------------------------------
(* C12 *)

\* The answers find_questioned may give about the newest message of the call
Questioned == {q \in SUBSET Range(call.active) : q /= {} /\ Cardinality(q) <= MaxAsked}

\* The last call once more, from the same log, active agents and orchestrator
\* fields, with find_questioned reporting the targets q for the newest message
Recall(q) ==
    select_next_speaker([i \in 1..Len(call.active) |-> [name |-> call.active[i]]],
                        SubSeq(conversation_history, 1, call.len), <<>>,
                        call.pre, [call.in EXCEPT !.asked = q])

\* C12: on every call with a non-empty recent window the queue is updated from
\* the newest message before any rule is evaluated: whatever targets
\* find_questioned reports for that message, each edge from the last speaker
\* to a target is in the queue when the call returns, unless the target is the
\* agent the call selects; also when forced deflection or ping-pong decides.
C12_QueueUpdatedBeforeCascade ==
    (Called /\ call.last_speaker /= None) =>
        \A q \in Questioned : \A target \in q :
            target /= Recall(q).ret =>
                call.last_speaker \in Range(Pending(Recall(q).queue, target))

-----------------------------------------------------------------------------
(* C13 *)

\* C13: the same agent never speaks twice in a row: no two consecutive
\* non-system messages of the log have the same author, a voting round
\* between them or not.
C13_NeverTwiceInARow ==
    LET speakers == Speakers(NonSystem(conversation_history))
    IN  \A i \in 1..(Len(speakers) - 1) : speakers[i] /= speakers[i + 1]

-----------------------------------------------------------------------------
(* C14 *)

\* C14: discussion moves to voting exactly when the number of non-system
\* messages since the last voting round reaches 20: no 21st message is ever
\* appended, once the 20th is in the log the next run_round of the running
\* game is the voting round, and a voting round that starts from discussion
\* starts with exactly 20.
C14_VotingAtThreshold ==
    /\ SinceLastRound(conversation_history) <= VOTING_MESSAGE_THRESHOLD
    /\ (is_running /\ ~GameOver
            /\ SinceLastRound(conversation_history) = VOTING_MESSAGE_THRESHOLD) => VotingDue
    /\ (voting.rounds > 0 /\ ~voting.over) => voting.since = VOTING_MESSAGE_THRESHOLD

\* A second voting round has started, 20 messages after the first
C14_Witness ==
    /\ voting.rounds = 2
    /\ ~voting.over
    /\ voting.since = VOTING_MESSAGE_THRESHOLD
    /\ NonSystemCount(conversation_history) = 2 * VOTING_MESSAGE_THRESHOLD

-----------------------------------------------------------------------------
(* C15 *)

\* The sum of a tally
RECURSIVE SumVotes(_)
SumVotes(votes) == IF votes = <<>> THEN 0 ELSE Head(votes).count + SumVotes(Tail(votes))

\* The counted votes of the last voting round that are for a candidate
CastFor(name) == {k \in 1..Len(voting.cast) : voting.cast[k].candidate = name}

-----------------------------------------------------------------------------
(* C16 *)

\* The count of a candidate after the first n counted votes of the last round
CountAfter(n, name) == Cardinality({k \in 1..n : voting.cast[k].candidate = name})

\* The candidates with the largest final count
Tied ==
    {c \in {voting.cast[k].candidate : k \in 1..Len(voting.cast)} :
        \A d \in {voting.cast[k].candidate : k \in 1..Len(voting.cast)} :
            CountAfter(Len(voting.cast), d) <= CountAfter(Len(voting.cast), c)}

\* The number of counted votes after which a candidate has its final count
ReachedAt(name) ==
    CHOOSE n \in 1..Len(voting.cast) :
        /\ CountAfter(n, name) = CountAfter(Len(voting.cast), name)
        /\ \A m \in 1..(n - 1) : CountAfter(m, name) < CountAfter(Len(voting.cast), name)

\* The index of the first counted vote for a candidate
FirstVoteAt(name) ==
    CHOOSE n \in 1..Len(voting.cast) :
        /\ voting.cast[n].candidate = name
        /\ \A m \in 1..(n - 1) : voting.cast[m].candidate /= name

\* C16 as stated: when several candidates tie for the maximum, the eliminated
\* agent is the tied candidate whose count reached the maximum first in
\* vote-casting order.
C16_TieBreakFirstToReach ==
    (voting.rounds > 0 /\ Cardinality(Tied) > 1) =>
        /\ voting.voted_out_name \in Tied
        /\ \A c \in Tied : ReachedAt(voting.voted_out_name) <= ReachedAt(c)

\* C16 amended: when several candidates tie for the maximum, the eliminated
\* agent is the tied candidate that received its first counted vote earliest
\* in vote-casting order (the first key of the tally with the maximum).
C16_TieBreakFirstVoted ==
    (voting.rounds > 0 /\ Cardinality(Tied) > 1) =>
        /\ voting.voted_out_name \in Tied
        /\ \A c \in Tied : FirstVoteAt(voting.voted_out_name) <= FirstVoteAt(c)

\* A tie in which the candidate voted for first is not the one that reached
\* the maximum first
C16_Witness ==
    /\ voting.rounds > 0
    /\ Cardinality(Tied) > 1
    /\ \E c \in Tied :
        /\ c /= voting.voted_out_name
        /\ ReachedAt(c) < ReachedAt(voting.voted_out_name)
        /\ FirstVoteAt(voting.voted_out_name) < FirstVoteAt(c)

-----------------------------------------------------------------------------
(* C17 *)

\* The active mafia and the active villagers, as counted at the win check of
\* the last voting round (nothing but a voting round eliminates an agent)
ActiveMafia == Len(Remaining(agents, eliminated_agents, "mafia"))

ActiveVillagers == Len(Remaining(agents, eliminated_agents, "villager"))

\* C17: at the win check the villagers win if and only if no mafia is active,
\* the mafia win if and only if at least one mafia is active and the active
\* mafia are at least as many as the active villagers, equality included;
\* otherwise the game continues.
C17_WinCondition ==
    voting.rounds > 0 =>
        /\ voting.winner = "villagers" <=> ActiveMafia = 0
        /\ voting.winner = "mafia" <=> (ActiveMafia >= 1 /\ ActiveMafia >= ActiveVillagers)
        /\ voting.winner = None <=> (ActiveMafia >= 1 /\ ActiveMafia < ActiveVillagers)
        /\ voting.winner /= None => GameOver
        /\ (voting.winner = None /\ ~voting.over) => ~GameOver

\* The mafia win at exact equality, two against two
C17_Witness ==
    /\ voting.rounds > 0
    /\ voting.winner = "mafia"
    /\ ActiveMafia = 2
    /\ ActiveVillagers = 2
    /\ ~is_running

-----------------------------------------------------------------------------
(* C18 *)

\* The eliminated agents of the last voting round right after its vote
AfterVote == Append(voting.before, voting.voted_out_name)

\* A win condition holds right after the vote elimination of the last round
WonByVote ==
    \/ Len(Remaining(agents, AfterVote, "mafia")) = 0
    \/ Len(Remaining(agents, AfterVote, "mafia")) >= Len(Remaining(agents, AfterVote, "villager"))

\* C18: the win check runs after every elimination: when the vote elimination
\* alone satisfies a win condition the game ends at once, and no night kill
\* follows in that round.
C18_WinCheckAfterVote ==
    (voting.rounds > 0 /\ voting.voted_out_name /= None /\ WonByVote) =>
        /\ voting.mafia_kill_name = None
        /\ eliminated_agents = AfterVote

-----------------------------------------------------------------------------
(* C19 *)

\* C19: GameOver is terminal: once a win condition has been detected, no later
\* operation on the game selects a speaker, appends an agent message,
\* conducts a vote or eliminates an agent.
C19_GameOverTerminal ==
    [][GameOver =>
        /\ call' = call
        /\ voting' = voting
        /\ eliminated_agents' = eliminated_agents
        /\ NonSystem(conversation_history') = NonSystem(conversation_history)]_vars

-----------------------------------------------------------------------------
(* C20 *)

\* The eliminated agents of the last voting round when its night begins
AtNight == IF voting.voted_out_name = None THEN voting.before ELSE AfterVote

\* C20: the night-kill victim is always an active villager, never a mafia
\* agent, an agent eliminated before or the agent just voted out, whatever
\* the mafia's responses name; when mafia remain and a villager is active
\* exactly one villager is eliminated, and with mafia remaining no victim is
\* chosen only when no villager is active.
C20_NightKillVictim ==
    voting.rounds > 0 =>
        /\ voting.mafia_kill_name /= None =>
                /\ voting.mafia_kill_name \in Range(Remaining(agents, AtNight, "villager"))
                /\ voting.mafia_kill_name \notin Range(Remaining(agents, <<>>, "mafia"))
                /\ voting.mafia_kill_name \notin Range(voting.before)
                /\ voting.mafia_kill_name /= voting.voted_out_name
                /\ Remaining(agents, AtNight, "mafia") /= <<>>
        /\ (Remaining(agents, AtNight, "mafia") /= <<>>
                /\ Remaining(agents, AtNight, "villager") /= <<>>) =>
                /\ voting.mafia_kill_name /= None
                /\ eliminated_agents = Append(AtNight, voting.mafia_kill_name)
        /\ (Remaining(agents, AtNight, "mafia") /= <<>> /\ voting.mafia_kill_name = None) =>
                /\ Remaining(agents, AtNight, "villager") = <<>>
                /\ eliminated_agents = AtNight

\* The mafia's response names the agent just voted out, and a villager that
\* is still active is killed
C20_Witness ==
    /\ voting.rounds = 2
    /\ voting.voted_out_name /= None
    /\ voting.before /= <<>>
    /\ \E i \in 1..Len(voting.responses) : voting.responses[i] = {voting.voted_out_name}
    /\ voting.mafia_kill_name \in Range(Remaining(agents, AtNight, "villager"))

-----------------------------------------------------------------------------
(* The will editing on its own: any will, any responses of two mafia agents *)

\* The texts of at most n characters
Texts(n) == UNION {[1..k -> Characters] : k \in 0..n}

\* A victim's will and the responses of the mafia agents to the editing prompt
InitWill ==
    /\ NewGame(Trio)
    /\ NoThreads
    /\ loop_check = NoLoopCheck
    /\ \E original_will \in Texts(MaxWillLen), first \in Texts(MaxWordLen), second \in {<<>>, <<"a">>} :
        will = [original_will |-> original_will, responses |-> <<first, second>>,
                edited_will |-> <<>>, done |-> FALSE]

\* trigger_voting, lines 386-397: the will is published, conduct_will_editing
\* runs, and a will that differs is published as edited
WillEditing ==
    /\ ~will.done
    /\ \E edited_will \in {conduct_will_editing(will.original_will, will.responses)} :
        /\ will' = [will EXCEPT !.edited_will = edited_will, !.done = TRUE]
        /\ conversation_history' =
                publish_will(conversation_history, will.original_will, edited_will)
    /\ UNCHANGED <<agents, eliminated_agents, is_running, in_voting, last_voting_message_count, current_speaker, conversation_reset_index, vote_history, orchVars, call, voting, env, loop_check, pc, lock, local, snapshots>>

NextWill == WillEditing

SpecWill == InitWill /\ [][NextWill]_vars

-----------------------------------------------------------------------------
(* C21: will editing on a miss *)

\* The response that counts: the first one that is not empty, <<>> if none
RECURSIVE FirstResponse(_, _)
FirstResponse(responses, i) ==
    IF i > Len(responses) THEN <<>>
    ELSE IF responses[i] /= <<>> THEN responses[i]
    ELSE FirstResponse(responses, i + 1)

\* The word requested for removal, compared as the words of the will are:
\* without case and with the punctuation around it stripped
Requested == clean_word(strip(FirstResponse(will.responses, 1), whitespace))

\* No mafia agent returned a word
NoWordReturned == \A i \in 1..Len(will.responses) : will.responses[i] = <<>>

\* The requested word equals no word of the will
Miss ==
    \A i \in 1..Len(split(will.original_will, <<>>)) :
        clean_word(split(will.original_will, <<>>)[i]) /= Requested

\* The log holds a WILL EDITED message
WillEditedPublished ==
    \E i \in 1..Len(conversation_history) : conversation_history[i].content = "WILL EDITED"

\* C21: when the requested word equals no word of the will (case and
\* punctuation aside), or no mafia agent returns a word, conduct_will_editing
\* returns the original will unchanged and no WILL EDITED message is appended.
C21_WillUnchangedOnMiss ==
    (will.done /\ (NoWordReturned \/ Miss)) =>
        /\ will.edited_will = will.original_will
        /\ ~WillEditedPublished
        /\ conversation_history[Len(conversation_history)].content = "LAST WILL"

\* A will of two words, a request for a word that is none of them (the second
\* agent's, the first returned nothing), and the will as it was
C21_Witness ==
    /\ will.done
    /\ Len(split(will.original_will, <<>>)) = 2
    /\ will.responses[1] = <<>>
    /\ Requested /= <<>>
    /\ Miss
    /\ will.edited_will = will.original_will
    /\ ~WillEditedPublished

-----------------------------------------------------------------------------
(* The loop check on its own: any keywords in the messages, any result of   *)
(* the provider                                                             *)

\* What the provider may do with the prompt: answer "yes", "no" or something
\* else, return None (an error it handled itself), or raise
Results == {"yes", "no", "maybe", None, "raises"}

\* The contents of a message of the loop check: the keywords its text holds,
\* among the first MaxKeywords of the list
Keywords == SUBSET {common_words[k] : k \in 1..MaxKeywords}

\* The messages a loop check may get: 3 or 4 of them, by two agents in turn
InitLoopCheck ==
    /\ NewGame(Trio)
    /\ NoThreads
    /\ will = NoWill
    /\ \E n \in {check_window - 1, check_window}, result \in Results :
        \E contents \in [1..n -> Keywords] :
            loop_check =
                [recent_messages |->
                    [i \in 1..n |-> Message(agent_names[(i % 2) + 1], contents[i], FALSE)],
                 result |-> result, answer |-> FALSE, done |-> FALSE]

\* select_next_speaker, RULE 5 and 6: _is_echo_chamber is asked, its call of
\* the oracle goes through APIHandler.generate_response
LoopCheck ==
    /\ ~loop_check.done
    /\ loop_check' = [loop_check EXCEPT
            !.answer = _is_echo_chamber(loop_check.recent_messages,
                                        generate_response(loop_check.result)),
            !.done = TRUE]
    /\ UNCHANGED <<gameVars, orchVars, call, voting, env, will, pc, lock, local, snapshots>>

NextLoopCheck == LoopCheck

SpecLoopCheck == InitLoopCheck /\ [][NextLoopCheck]_vars

-----------------------------------------------------------------------------
(* C22: the loop check when the oracle fails *)

\* C22: when the oracle call of the loop check fails (the provider returns
\* None or raises), the answer of the check is the keyword heuristic over the
\* last 4 messages, not an unconditional "no".
C22_HeuristicOnFailure ==
    (loop_check.done /\ loop_check.result \in {None, "raises"}) =>
        loop_check.answer = _simple_echo_detection(loop_check.recent_messages)

-----------------------------------------------------------------------------
(* C23: a vote without the VOTE: token *)

\* The voters of the last voting round whose vote was counted
Voters == {voting.cast[k].voter : k \in 1..Len(voting.cast)}

\* C23: when a voter's response lacks the VOTE: token but its text names a
\* valid candidate, the vote is counted for that candidate; a voter casts no
\* vote only when its response names no valid candidate anywhere.
C23_VoteWithoutToken ==
    \A i \in 1..Len(voting.said) :
        LET candidates == Candidates(voting.active, i)
            anywhere == voting.said[i].line \cup voting.said[i].text
        IN  /\ (~voting.said[i].token /\ Match(candidates, voting.said[i].text) /= None) =>
                    \E k \in 1..Len(voting.cast) :
                        /\ voting.cast[k].voter = voting.active[i]
                        /\ voting.cast[k].candidate = Match(candidates, voting.said[i].text)
            /\ voting.active[i] \notin Voters => Match(candidates, anywhere) = None

-----------------------------------------------------------------------------
(* Two threads on one game: the thread that runs the round loop, and another *)
(* caller of the game's public methods (add_message,                          *)
(* get_conversation_snapshot, stop).  A step is one statement of a method;    *)
(* "with self.lock" is a step of its own, its body and the release another.   *)

\* The game of the threads: three players, one failed turn, one stop
Threaded == [Trio EXCEPT !.fails = 1, !.cap = MaxThreadMessages, !.stops = 1]

\* What no thread changes before the first voting round
fixedVars == <<agents, eliminated_agents, in_voting, last_voting_message_count, conversation_reset_index, vote_history, voting, will, loop_check>>

InitThreads ==
    /\ NewGame(Threaded)
    /\ NoMethod
    /\ NoThreads

\* A thread calls a method of the log: m is the message of add_message, then
\* the place it goes on from
Enter(t, label, m, then) ==
    /\ pc' = [pc EXCEPT ![t] = label]
    /\ local' = [local EXCEPT ![t].message = m, ![t].then = then,
                              ![t].calls = @ + (IF t = "caller" THEN 1 ELSE 0)]

\* with self.lock: (lines 152 and 163): the thread goes on when no thread
\* holds the lock
Acquire(t) ==
    /\ pc[t] \in {"add_message", "get_conversation_snapshot"}
    /\ lock = None
    /\ lock' = t
    /\ pc' = [pc EXCEPT ![t] = IF pc[t] = "add_message" THEN "append" ELSE "copy"]
    /\ UNCHANGED <<fixedVars, conversation_history, is_running, current_speaker, orchVars, call, env, local, snapshots>>

\* add_message, lines 153-159, and the release of the lock
AddMessage(t) ==
    /\ pc[t] = "append"
    /\ conversation_history' = add_message(conversation_history, local[t].message.agent,
                                           local[t].message.content, local[t].message.is_system)
    /\ lock' = None
    /\ pc' = [pc EXCEPT ![t] = local[t].then]
    /\ UNCHANGED <<fixedVars, is_running, current_speaker, orchVars, call, env, local, snapshots>>

\* get_conversation_snapshot, line 164, and the release of the lock
GetConversationSnapshot(t) ==
    /\ pc[t] = "copy"
    /\ snapshots' = Append(snapshots, [thread |-> t, log |-> conversation_history])
    /\ lock' = None
    /\ pc' = [pc EXCEPT ![t] = local[t].then]
    /\ UNCHANGED <<fixedVars, conversation_history, is_running, current_speaker, orchVars, call, env, local>>

\* run_round without a current speaker, up to select_next_speaker's line 32:
\* _update_patience reads the game's list
LoopUpdatePatience ==
    /\ pc["loop"] = "idle"
    /\ is_running
    /\ ~VotingDue
    /\ current_speaker = None
    /\ NonSystemCount(conversation_history) <= env.cap
    /\ pc' = [pc EXCEPT !["loop"] = "select"]
    /\ local' = [local EXCEPT !["loop"].seen = conversation_history]
    /\ UNCHANGED <<fixedVars, conversation_history, is_running, current_speaker, orchVars, call, env, lock, snapshots>>

\* select_next_speaker from line 35 on: the window is cut from the game's
\* list as it is now, the cascade runs, run_round sets the current speaker.
\* (The patience counters are written here, with the rest of the call.)
LoopSelect ==
    /\ pc["loop"] = "select"
    /\ \E in \in {NoSignal(rnd) : rnd \in 1..MaxDraw} :
        \E out \in {select_from(agents, local["loop"].seen, conversation_history,
                                eliminated_agents, OrchState, in)} :
        LET recent_messages == NonSystem(LastN(conversation_history, context_window))
        IN  /\ Consumed(in, out)
            /\ agent_patience' = out.patience
            /\ question_queue' = out.queue
            /\ last_pingpong_mediator' = out.mediator
            /\ force_deflection_from' = out.deflect
            /\ current_speaker' = out.ret
            /\ call' = [rule |-> out.rule, ret |-> out.ret,
                        active |-> active_agents(agents, eliminated_agents),
                        len |-> Len(conversation_history), in |-> in,
                        last_speaker |-> IF recent_messages = <<>> THEN None
                                         ELSE recent_messages[Len(recent_messages)].agent,
                        mentions |-> FALSE, pre |-> OrchState, prev |-> Summary(call)]
    /\ pc' = [pc EXCEPT !["loop"] = "idle"]
    /\ UNCHANGED <<fixedVars, conversation_history, is_running, env, lock, local, snapshots>>

\* run_round with a current speaker: process_agent_turn takes a snapshot
\* (line 175) for the prompt
LoopTurn ==
    /\ pc["loop"] = "idle"
    /\ is_running
    /\ ~VotingDue
    /\ current_speaker /= None
    /\ NonSystemCount(conversation_history) < env.cap
    /\ Enter("loop", "get_conversation_snapshot", local["loop"].message, "generate_response")
    /\ UNCHANGED <<fixedVars, conversation_history, is_running, current_speaker, orchVars, call, env, lock, snapshots>>

\* process_agent_turn, lines 189-201: the generator's response has come and
\* is added to the log
LoopTurnSpeaks ==
    /\ pc["loop"] = "generate_response"
    /\ Enter("loop", "add_message", Message(current_speaker, "plain", FALSE), "return")
    /\ UNCHANGED <<fixedVars, conversation_history, is_running, current_speaker, orchVars, call, env, lock, snapshots>>

\* process_agent_turn: generate_response has returned None; run_round, line
\* 306, clears the current speaker
LoopTurnFails ==
    /\ pc["loop"] = "generate_response"
    /\ env.fails > 0
    /\ env' = [env EXCEPT !.fails = @ - 1]
    /\ current_speaker' = None
    /\ pc' = [pc EXCEPT !["loop"] = "idle"]
    /\ UNCHANGED <<fixedVars, conversation_history, is_running, orchVars, call, lock, local, snapshots>>

\* run_round, line 306, after a turn that spoke
LoopTurnReturns ==
    /\ pc["loop"] = "return"
    /\ current_speaker' = None
    /\ pc' = [pc EXCEPT !["loop"] = "idle"]
    /\ UNCHANGED <<fixedVars, conversation_history, is_running, orchVars, call, env, lock, local, snapshots>>

\* The other caller adds a system message
CallAddMessage ==
    /\ pc["caller"] = "idle"
    /\ local["caller"].calls < MaxCalls
    /\ Enter("caller", "add_message", Message(System, "note", TRUE), "idle")
    /\ UNCHANGED <<fixedVars, conversation_history, is_running, current_speaker, orchVars, call, env, lock, snapshots>>

\* The other caller takes a snapshot
CallGetConversationSnapshot ==
    /\ pc["caller"] = "idle"
    /\ local["caller"].calls < MaxCalls
    /\ Enter("caller", "get_conversation_snapshot", local["caller"].message, "idle")
    /\ UNCHANGED <<fixedVars, conversation_history, is_running, current_speaker, orchVars, call, env, lock, snapshots>>

\* The other caller calls stop(): line 675 clears the flag, line 676 adds the
\* message
CallStop ==
    /\ pc["caller"] = "idle"
    /\ env.stops > 0
    /\ is_running' = FALSE
    /\ env' = [env EXCEPT !.stops = @ - 1]
    /\ pc' = [pc EXCEPT !["caller"] = "add_message"]
    /\ local' = [local EXCEPT !["caller"].message = Message(System, "Game stopped.", TRUE),
                              !["caller"].then = "idle"]
    /\ UNCHANGED <<fixedVars, conversation_history, current_speaker, orchVars, call, lock, snapshots>>

NextThreads ==
    \/ Start
    \/ \E t \in Threads : Acquire(t)
    \/ \E t \in Threads : AddMessage(t)
    \/ \E t \in Threads : GetConversationSnapshot(t)
    \/ LoopUpdatePatience
    \/ LoopSelect
    \/ LoopTurn
    \/ LoopTurnSpeaks
    \/ LoopTurnFails
    \/ LoopTurnReturns
    \/ CallAddMessage
    \/ CallGetConversationSnapshot
    \/ CallStop

SpecThreads == InitThreads /\ [][NextThreads]_vars

-----------------------------------------------------------------------------
(* C24: the log under concurrent callers *)

\* s is a prefix of t
IsPrefix(s, t) == Len(s) <= Len(t) /\ SubSeq(t, 1, Len(s)) = s

\* Every snapshot is a prefix of every later snapshot and of the log
SnapshotsConsistent ==
    \A j \in 1..Len(snapshots) :
        /\ IsPrefix(snapshots[j].log, conversation_history)
        /\ \A i \in 1..(j - 1) : IsPrefix(snapshots[i].log, snapshots[j].log)

\* A step adds at most one message at the end of the log and changes no
\* message that is in it
AppendOnly ==
    /\ IsPrefix(conversation_history, conversation_history')
    /\ Len(conversation_history') <= Len(conversation_history) + 1

\* C24: for any interleaving of add_message and get_conversation_snapshot
\* calls of the two threads, every snapshot is a prefix of every later
\* snapshot and of the log, and no message is ever removed, reordered,
\* duplicated or seen in part.
C24_LogAppendOnly == []SnapshotsConsistent /\ [][AppendOnly]_vars

\* Two snapshots by different threads, the second longer than the first, a
\* message added since, and a thread that waits for the lock another holds
C24_Witness ==
    /\ Len(snapshots) >= 2
    /\ snapshots[1].thread /= snapshots[2].thread
    /\ Len(snapshots[1].log) < Len(snapshots[2].log)
    /\ Len(snapshots[2].log) < Len(conversation_history)
    /\ lock /= None
    /\ \E t \in Threads :
        pc[t] \in {"add_message", "get_conversation_snapshot"} /\ lock /= t

-----------------------------------------------------------------------------
(* C25: cancellation *)

\* The loop thread makes its call of the generator in this step
GeneratorCalled ==
    pc["loop"] /= "generate_response" /\ pc'["loop"] = "generate_response"

-----------------------------------------------------------------------------
(* C26: one snapshot for one decision *)

\* C26: a decision of select_next_speaker is computed from one snapshot of
\* the log: the log the patience update read is the log the window of the
\* cascade was cut from, whatever another caller appended during the call.
C26_OneSnapshot ==
    (Called /\ pc["loop"] /= "select") =>
        local["loop"].seen = SubSeq(conversation_history, 1, call.len)

-----------------------------------------------------------------------------
(* C27: the context-reset boundary *)

\* The number of round summaries in the log
RoundSummaries ==
    Cardinality({i \in 1..Len(conversation_history) :
                    conversation_history[i].content = "ROUND SUMMARY"})

\* One round summary per voting round; the reset index is 0 before the
\* first, and then the position of the latest round summary, a system
\* message, within the log
ResetAtLatestSummary ==
    /\ RoundSummaries = voting.rounds
    /\ conversation_reset_index <= Len(conversation_history)
    /\ conversation_reset_index =
            LastIndex(conversation_history, "ROUND SUMMARY", Len(conversation_history))
    /\ conversation_reset_index > 0 =>
            conversation_history[conversation_reset_index].is_system

\* C27: every voting round appends exactly one ROUND SUMMARY system message
\* and sets the reset index to the length of the log at that moment: the
\* index is 0 or the position of the latest round summary, never decreases
\* and never exceeds the length of the log.
C27_ResetBoundary ==
    []ResetAtLatestSummary /\ [][conversation_reset_index' >= conversation_reset_index]_vars

\* After the second voting round the discussion has gone on: the index has
\* moved to the second summary and messages follow it
C27_Witness ==
    /\ voting.rounds = 2
    /\ RoundSummaries = 2
    /\ conversation_reset_index > 0
    /\ conversation_reset_index < Len(conversation_history)
    /\ conversation_history[conversation_reset_index].content = "ROUND SUMMARY"
    /\ \E i \in 1..(conversation_reset_index - 1) :
            conversation_history[i].content = "ROUND SUMMARY"

-----------------------------------------------------------------------------
(* C28: the eliminated agent in the vote record *)

\* C28: once a voting round has completed, the record appended to
\* vote_history for it names the agent the vote eliminated, and None only
\* when nobody was voted out.
C28_VoteRecordEliminated ==
    voting.rounds > 0 =>
        /\ Len(vote_history) = voting.rounds
        /\ vote_history[Len(vote_history)].round = voting.rounds
        /\ vote_history[Len(vote_history)].eliminated = voting.voted_out_name

-----------------------------------------------------------------------------
(* C29: elimination is monotonic *)

\* The eliminated list names agents of the game, each at most once
EliminatedOnce ==
    /\ Range(eliminated_agents) \subseteq AllNames(agents)
    /\ \A i, j \in 1..Len(eliminated_agents) :
            i /= j => eliminated_agents[i] /= eliminated_agents[j]

\* What a voting round added to the eliminated list: the agent voted out,
\* then the victim of the night
Eliminations(v) ==
    (IF v.voted_out_name = None THEN <<>> ELSE <<v.voted_out_name>>)
        \o (IF v.mafia_kill_name = None THEN <<>> ELSE <<v.mafia_kill_name>>)

\* A step keeps the roles and the eliminated agents, and adds to them only
\* in a voting round, by its vote and its night kill, agents that were active
EliminatedGrows ==
    /\ agents' = agents
    /\ IsPrefix(eliminated_agents, eliminated_agents')
    /\ eliminated_agents' /= eliminated_agents =>
            /\ voting'.rounds = voting.rounds + 1
            /\ eliminated_agents' = eliminated_agents \o Eliminations(voting')
            /\ Range(Eliminations(voting')) \cap Range(eliminated_agents) = {}

\* C29: an agent is eliminated at most once, only by a vote or a night kill;
\* an eliminated agent never becomes active again and is never eliminated a
\* second time, and no role changes after the start of the game.
C29_EliminationMonotonic == []EliminatedOnce /\ [][EliminatedGrows]_vars

\* A second voting round that eliminates two more agents, while the mafia's
\* response names an agent that was eliminated before
C29_Witness ==
    /\ voting.rounds = 2
    /\ voting.before /= <<>>
    /\ voting.voted_out_name /= None
    /\ voting.mafia_kill_name /= None
    /\ \E i \in 1..Len(voting.responses) :
            voting.responses[i] \cap Range(voting.before) /= {}
    /\ eliminated_agents = voting.before \o Eliminations(voting)
    /\ Len(eliminated_agents) = Len(voting.before) + 2

-----------------------------------------------------------------------------
(* C30: the pending-questions rule *)

\* The question queue as RULE 3 of the last call found it: the queue before
\* the call, updated with the questions of the newest message
QueueAtRule3 ==
    _update_question_queue(call.last_speaker,
                           _extract_questions(call.in.asked, call.active), call.pre.queue)

\* The active agents other than the last speaker with questions pending, in
\* list order
Waiting ==
    SelectSeq(call.active,
              LAMBDA n : n /= call.last_speaker /\ Pending(QueueAtRule3, n) /= <<>>)

\* C30: when the forced-deflection, ping-pong and defense rules do not decide
\* the call and some active agent other than the last speaker has questions
\* pending, select_next_speaker returns the first such agent in list order
\* and clears its queue, whoever else has questions pending.
C30_PendingQuestionsServed ==
    (/\ Called
     /\ call.rule \notin {"noactive", "random", "deflect", "pingpong", "defense"}
     /\ Waiting /= <<>>) =>
        /\ call.rule = "questions"
        /\ call.ret = Waiting[1]
        /\ Pending(question_queue, Waiting[1]) = <<>>

-----------------------------------------------------------------------------
(* C31 *)

\* C31: when none of the higher rules decides a call and several active agents
\* have counters at or above the threshold 8, the patience rule decides it and
\* returns the first of them in list order, whatever their counters are, and
\* the agent it returns is not the last speaker.
C31_PatienceOverflowFirstInOrder ==
    ( /\ CascadeRan
      /\ call.rule \notin {"deflect", "pingpong", "defense", "questions"}
      /\ Cardinality(Impatient) >= 2 )
    => /\ call.rule = "patience"
       /\ \E i \in Impatient :
            /\ call.ret = call.active[i]
            /\ \A j \in Impatient : i <= j
       /\ call.ret /= call.last_speaker

\* C31 happens: two agents are at or above the threshold, the later one has
\* waited longer, the rule returns the earlier one, and the last speaker is
\* still active.
C31_Witness ==
    /\ call.rule = "patience"
    /\ Cardinality(Impatient) >= 2
    /\ \E i, j \in Impatient :
        /\ i < j
        /\ call.ret = call.active[i]
        /\ Get(agent_patience, call.active[j]) > Get(agent_patience, call.active[i])
    /\ call.last_speaker \in Range(call.active)
    /\ call.ret /= call.last_speaker

-----------------------------------------------------------------------------
(* C32 *)

\* The unproductive-loop check was made in the call and was true
Stuck == call.rule \in {"loop", "default"} /\ call.in.echo = "yes"

\* The active agents other than the last speaker
Available == SelectSeq(call.active, LAMBDA n : n /= call.last_speaker)

\* Those of them who authored none of the last 5 non-system messages of the log
Quiet == SelectSeq(Available, LAMBDA n : n \notin Range(LastN(LogSpeakers, quiet_window)))

\* An agent of a list has the highest counter of the list, and is the first
\* of the list to have it
HighestPatience(name, ags) ==
    \E i \in 1..Len(ags) :
        /\ ags[i] = name
        /\ \A j \in 1..Len(ags) : Get(agent_patience, ags[j]) <= Get(agent_patience, name)
        /\ \A j \in 1..(i - 1) : Get(agent_patience, ags[j]) < Get(agent_patience, name)

\* C32: when no higher rule decides a call and the unproductive-loop check is
\* true, the call returns the agent with the highest counter (the first in
\* list order among equals) among the active agents who are not the last
\* speaker and authored none of the last 5 non-system messages; when there is
\* no such agent it returns the agent with the highest counter among the
\* active agents other than the last speaker.
C32_LoopRuleQuietAgent ==
    Stuck
    => IF Quiet /= <<>>
       THEN HighestPatience(call.ret, Quiet)
       ELSE HighestPatience(call.ret, Available)

\* C32 happens: the check is true, two quiet agents have waited equally long,
\* the first of them is returned, and another agent who is not the last
\* speaker has spoken among the last 5 messages.
C32_Witness ==
    /\ Stuck
    /\ call.rule = "loop"
    /\ Len(Quiet) >= 2
    /\ call.ret = Quiet[1]
    /\ Get(agent_patience, Quiet[2]) = Get(agent_patience, Quiet[1])
    /\ Len(Available) > Len(Quiet)

-----------------------------------------------------------------------------
(* C33 *)

\* The next run_round processes the turn of the pending speaker: it computes
\* the two flags and hands them to process_agent_turn
TurnPending == is_running /\ ~VotingDue /\ current_speaker /= None

\* C33: the flags run_round passes to the generator for the pending speaker
\* tell which rule returned the speaker: is_mediator_turn is true exactly when
\* the ping-pong rule returned it, is_impatient_turn exactly when the
\* patience rule returned it.
C33_FlagsReflectDecision ==
    TurnPending
    => /\ is_mediator_turn(current_speaker, conversation_history) <=> (call.rule = "pingpong")
       /\ is_impatient_turn(current_speaker, agent_patience) <=> (call.rule = "patience")

-----------------------------------------------------------------------------
(* C34: will editing on a hit *)

\* The words of the will
Tokens == split(will.original_will, <<>>)

\* The positions of the words that equal the requested word, case and the
\* punctuation around them aside
Hits == {i \in 1..Len(Tokens) : clean_word(Tokens[i]) = Requested}

\* C34: when the word that the first responding mafia agent requests equals a
\* word of the will (case and punctuation aside), the edited will holds the
\* words of the original will without the first word that matches, the others
\* unchanged and in order.
C34_FirstMatchRemoved ==
    (will.done /\ Requested /= <<>> /\ Hits /= {}) =>
        \E i \in Hits :
            /\ \A j \in Hits : i <= j
            /\ split(will.edited_will, <<>>) =
                    SubSeq(Tokens, 1, i - 1) \o SubSeq(Tokens, i + 1, Len(Tokens))

-----------------------------------------------------------------------------
(* The turn as it is written: run_round hands the pending speaker to        *)
(* process_agent_turn, which calls Agent.create_prompt with the two flags   *)

\* The parameters of Agent.create_prompt besides self (agent.py:247)
create_prompt_parameters == {"conversation_history", "vote_history", "context_reset_index"}

\* The keyword arguments of the call in process_agent_turn (lines 182-188);
\* the log and the vote history are passed by position
create_prompt_keywords == {"context_reset_index", "is_impatient_turn", "is_mediator_turn"}

\* The call raises a TypeError when it passes a keyword that is no parameter
create_prompt_raises == ~(create_prompt_keywords \subseteq create_prompt_parameters)

\* MafiaGame.process_agent_turn: the log after the turn.  The call of
\* create_prompt is inside the try block, so that its exception is caught and
\* the method returns None without asking the provider; otherwise response is
\* what generate_response returned, None or a text that is added to the log.
process_agent_turn(hist, agent_name, response) ==
    IF create_prompt_raises THEN hist
    ELSE IF response = None THEN hist
    ELSE add_message(hist, agent_name, response, FALSE)

\* How often the game of the turns is started
MaxStarts == 4

\* The game of the turns: three players, a provider that answers every
\* prompt, and a caller that stops the game and starts it again
Turns == [Trio EXCEPT !.fails = 0, !.starts = MaxStarts, !.stops = MaxStarts - 1]

InitTurn ==
    /\ NewGame(Turns)
    /\ NoMethod
    /\ NoThreads

\* The provider answers the next prompt
ProviderAnswers == ~env.down /\ env.fails = 0

\* MafiaGame.run_round with a current speaker, lines 289-310
ProcessAgentTurn ==
    /\ is_running
    /\ ~VotingDue
    /\ current_speaker /= None
    /\ \E response \in (IF create_prompt_raises THEN {None} ELSE Contents) :
        conversation_history' = process_agent_turn(conversation_history, current_speaker, response)
    /\ current_speaker' = None
    /\ UNCHANGED <<agents, eliminated_agents, is_running, in_voting, last_voting_message_count, conversation_reset_index, orchVars, call, voting, vote_history, env, sideVars>>

NextTurn ==
    \/ Start
    \/ RunRoundSelect
    \/ ProcessAgentTurn
    \/ Stop

SpecTurn == InitTurn /\ [][NextTurn]_vars

\* The round loop of the app calls run_round again and again while the game
\* is running
SpecTurnLive == SpecTurn /\ WF_vars(RunRoundSelect) /\ WF_vars(ProcessAgentTurn)

-----------------------------------------------------------------------------
(* C35 *)

\* C35: a run_round that processes the turn of the pending speaker while the
\* provider answers appends exactly one message, a non-system message by
\* that speaker, and clears the pending speaker.
C35_OneMessagePerTurn ==
    [][(TurnPending /\ current_speaker' = None /\ ProviderAnswers) =>
            \E content \in {"plain", "names"} :
                conversation_history' = add_message(conversation_history, current_speaker, content, FALSE)]_vars

-----------------------------------------------------------------------------
(* C36 *)

\* The position in the log of the last message with a content
Last(content) == LastIndex(conversation_history, content, Len(conversation_history))

\* The response of the i-th voter holds no valid vote: it is None, it lacks
\* the VOTE: line, or the line names no candidate
NoValidVote(i) ==
    \/ ~voting.said[i].token
    \/ Match(Candidates(voting.active, i), voting.said[i].line) = None

\* The win check on the agents that are left
WinCheck ==
    IF ActiveMafia = 0 THEN "villagers"
    ELSE IF ActiveMafia >= ActiveVillagers THEN "mafia" ELSE None

\* C36: in a voting round an agent whose response is None or does not parse
\* contributes no vote, and the round goes on to its end whatever the agents
\* return: when no valid vote is collected nobody is eliminated by vote, the
\* night kill runs if a mafia agent is left, the round summary is added and
\* the win check is made.
C36_VotingRunsToCompletion ==
    voting.rounds > 0 =>
        /\ \A i \in 1..Len(voting.said) : NoValidVote(i) => voting.active[i] \notin Voters
        /\ Last("VOTE BREAKDOWN") > Last("VOTING TIME")
        /\ Last("ROUND SUMMARY") > Last("VOTE BREAKDOWN")
        /\ voting.winner = WinCheck
        /\ (\A i \in 1..Len(voting.said) : NoValidVote(i)) =>
                /\ voting.votes = <<>>
                /\ voting.voted_out_name = None
                /\ Last("eliminated by vote") < Last("VOTING TIME")
                /\ Remaining(agents, voting.before, "mafia") /= <<>> =>
                        /\ Last("NIGHT FALLS") > Last("VOTE BREAKDOWN")
                        /\ voting.mafia_kill_name \in Range(Remaining(agents, voting.before, "villager"))
                        /\ eliminated_agents = Append(voting.before, voting.mafia_kill_name)
                /\ Remaining(agents, voting.before, "mafia") = <<>> =>
                        eliminated_agents = voting.before

\* C36 happens: one voter returns nothing, another names a candidate without
\* the VOTE: line, no vote is counted, and the night kill, the summary and
\* the win check follow
C36_Witness ==
    /\ voting.rounds > 0
    /\ \E i \in 1..Len(voting.said) : voting.said[i] = NoResponse
    /\ \E i \in 1..Len(voting.said) :
        ~voting.said[i].token /\ Match(Candidates(voting.active, i), voting.said[i].text) /= None
    /\ voting.votes = <<>>
    /\ voting.mafia_kill_name /= None
    /\ Last("ROUND SUMMARY") > Last("NIGHT FALLS")
    /\ voting.winner = WinCheck

-----------------------------------------------------------------------------
(* C37 *)

\* C37: with a provider that answers every prompt, a game that is started and
\* stays running eventually reaches GameOver.
C37_Termination == (<>[]is_running) => <>GameOver

-----------------------------------------------------------------------------
(* C38 *)

\* The pending speaker is an agent that is not eliminated
PendingSpeakerActive ==
    current_speaker /= None => current_speaker \in AllNames(agents) \ Range(eliminated_agents)

\* A step that adds an agent's message adds one by the pending speaker, who is
\* not eliminated when it is added
SpeakerActive ==
    NonSystemCount(conversation_history') > NonSystemCount(conversation_history) =>
        /\ conversation_history'[Len(conversation_history')].agent = current_speaker
        /\ current_speaker \in AllNames(agents) \ Range(eliminated_agents)

\* C38: an eliminated agent never speaks: the speaker that select_next_speaker
\* returned is not eliminated as long as it is pending, in the invocation that
\* selected it and in the next one that processes it, and every message of an
\* agent is added while its author is not eliminated.
C38_EliminatedNeverSpeaks == []PendingSpeakerActive /\ [][SpeakerActive]_vars

\* C38 happens: agents have been eliminated, an agent has spoken since, and
\* another one is selected and waits for its turn
C38_Witness ==
    /\ eliminated_agents /= <<>>
    /\ SinceLastRound(conversation_history) >= 1
    /\ current_speaker /= None
    /\ call.ret = current_speaker
    /\ is_running

-----------------------------------------------------------------------------
(* C39 *)

\* The last call of select_next_speaker was made after a voting round
CalledAfterVoting == Called /\ voting.rounds > 0 /\ call.len >= Last("ROUND SUMMARY")

\* C39: whenever the game is running after a completed voting round, a mafia
\* agent is active and the active mafia agents are fewer than the active
\* villagers, so that at least three agents are active, and
\* select_next_speaker is not called with fewer than three active agents.
C39_RunningAfterVoting ==
    /\ (is_running /\ voting.rounds > 0) =>
            /\ ActiveMafia >= 1
            /\ ActiveMafia < ActiveVillagers
            /\ Len(active_agents(agents, eliminated_agents)) >= 3
    /\ CalledAfterVoting => Len(call.active) >= 3

-----------------------------------------------------------------------------
(* C40 *)

\* C40: in_voting is true only while a voting round is executing: whenever
\* run_round or trigger_voting has returned or exited, also from a round that
\* ends the game and calls stop(winner), in_voting is false.  (Every state of
\* the specification is one between two calls.)
C40_InVotingOnlyDuringRound == ~in_voting

====
